---- MODULE Spec2Model ----
(***************************************************************************)
(* Model of the deployment-metadata accessor layer of src/index.js, of the  *)
(* SystemStatus contract exercised by src/test/contracts/SystemStatus.js   *)
(* and of the remove-synths script.                                        *)
(*                                                                         *)
(* JavaScript strings that the code slices, concatenates or searches are   *)
(* sequences of one-character strings; object keys that are only looked up *)
(* are TLA+ strings.  A JavaScript object is a function from its keys to   *)
(* its values; Object.assign is Assign below.                              *)
(***************************************************************************)
EXTENDS Integers, Sequences, FiniteSets, TLC

VARIABLES
    assets,     \* the shared Asset registry (require('./publish/assets.json'))
    data,       \* the bundled per-network data
    disk,       \* the files an explicit path reads: location -> file -> content
    abiState,   \* the registrations held by the shared abi-decoder module
    chain,      \* the storage of the contracts on chain
    call,       \* the last call made: its name and arguments
    result      \* what the last call returned, or that it threw

vars == <<assets, data, disk, abiState, chain, call, result>>

-----------------------------------------------------------------------------
(* Bounds of the model *)

\* longest network name drawn for getFolderNameForNetwork
MaxNameLen == 4

-----------------------------------------------------------------------------
(* Strings *)

\* s.startsWith(p)
StartsWith(s, p) ==
    /\ Len(p) <= Len(s)
    /\ SubSeq(s, 1, Len(p)) = p

\* s.includes(p)
Includes(s, p) ==
    \E i \in 0..(Len(s) - Len(p)) : SubSeq(s, i + 1, i + Len(p)) = p

\* s.slice(n)
Slice(s, n) == SubSeq(s, n + 1, Len(s))

OVM == <<"o", "v", "m">>
DASH_OVM == <<"-", "o", "v", "m">>

MAINNET == <<"m", "a", "i", "n", "n", "e", "t">>
TESTNET == <<"t", "e", "s", "t", "n", "e", "t">>

\* the characters network names are drawn from
NameChars == {"o", "v", "m", "-", "a"}

RECURSIVE SeqsUpTo(_, _)
SeqsUpTo(S, n) ==
    IF n = 0 THEN {<<>>}
    ELSE LET shorter == SeqsUpTo(S, n - 1)
         IN  shorter \cup {Append(s, x) : s \in {t \in shorter : Len(t) = n - 1}, x \in S}

NetworkNames == SeqsUpTo(NameChars, MaxNameLen) \cup {MAINNET, TESTNET}

-----------------------------------------------------------------------------
(* Objects *)

EmptyObj == <<>>

Has(o, k) == k \in DOMAIN o

\* Object.assign(a, b), on a target that is an object: b's own fields win
Assign(a, b) ==
    [k \in (DOMAIN a) \cup (DOMAIN b) |-> IF k \in DOMAIN b THEN b[k] ELSE a[k]]

\* obj[k] as a source of Object.assign, which skips an undefined source
Source(obj, k) == IF k \in DOMAIN obj THEN obj[k] ELSE EmptyObj

\* An object whose iteration order the code depends on (Object.entries,
\* Object.keys, Object.values) is a table: the sequence of its entries in
\* insertion order, each [key, value], no key twice.
HasKey(table, k) == \E i \in 1..Len(table) : table[i].key = k

Lookup(table, k) == table[CHOOSE i \in 1..Len(table) : table[i].key = k].value

\* the value of a field that is present and holds undefined
JsUndefined == "undefined"

\* The value of a synth's `index`: a string (the name of another synth) or
\* an array of index entries.
Str(name) == [t |-> "str", s |-> name, a |-> <<>>]
Arr(entries) == [t |-> "arr", s |-> <<>>, a |-> entries]

-----------------------------------------------------------------------------
(* Network Resolver *)

getFolderNameForNetwork_appends(args) ==
    IF args.useOvm THEN args.network \o DASH_OVM ELSE args.network

getFolderNameForNetwork(args) ==
    IF Includes(args.network, OVM)
    THEN args.network
    ELSE IF args.useOvm THEN args.network \o DASH_OVM ELSE args.network

-----------------------------------------------------------------------------
(* Results of a call *)

Returned(v) == [status |-> "ok", value |-> v]
Threw(msg) == [status |-> "throw", value |-> msg]

\* what a call does: its result and the Asset registry it leaves
Outcome(res, reg) == [result |-> res, assets |-> reg]

NoCall == [op |-> "none"]
\* no contract is deployed
NoChain == <<>>
NoResult == [status |-> "none", value |-> <<>>]

-----------------------------------------------------------------------------
(* Deployment Loader *)

DEPLOYMENT_FILENAME == "deployment.json"
SYNTHS_FILENAME == "synths.json"
FEEDS_FILENAME == "feeds.json"
OFFCHAIN_FEEDS_FILENAME == "offchain-feeds.json"
FUTURES_MARKETS_FILENAME == "futures-markets.json"
PERPS_V2_MARKETS_FILENAME == "perpsv2-markets.json"
STAKING_REWARDS_FILENAME == "rewards.json"
SHORTING_REWARDS_FILENAME == "shorting-rewards.json"
VERSIONS_FILENAME == "versions.json"

\* the directory an explicit deploymentPath names
DeploymentDir == <<"/", "d", "p">>

\* !deploymentPath && (!path || !fs): the bundled data is used
Bundled(args) == ~args.deploymentPath /\ (~args.path \/ ~args.fs)

\* data[getFolderNameForNetwork({ network, useOvm })][key]; reading a field
\* of an undefined folder entry is a TypeError
BundledFacet(args, key) ==
    LET folder == getFolderNameForNetwork(args)
    IN  IF folder \in DOMAIN data
        THEN Returned(data[folder][key])
        ELSE Threw("TypeError")

\* The explicit branch up to fs.existsSync: path.join on a missing path and
\* fs.existsSync on a missing fs are TypeErrors; otherwise the file is found
\* or not in the directory that deploymentPath, else the network, names.
ReadFile(args, file) ==
    IF ~args.path THEN [status |-> "throw", value |-> "TypeError"]
    ELSE IF ~args.fs THEN [status |-> "throw", value |-> "TypeError"]
    ELSE LET dir == IF args.deploymentPath
                    THEN DeploymentDir
                    ELSE getFolderNameForNetwork(args)
         IN  IF dir \in DOMAIN disk /\ file \in DOMAIN disk[dir]
             THEN [status |-> "ok", value |-> disk[dir][file]]
             ELSE [status |-> "missing", value |-> <<>>]

\* a facet whose missing file is an Error
LoadOrThrow(args, key, file, msg) ==
    IF Bundled(args) THEN BundledFacet(args, key)
    ELSE LET f == ReadFile(args, file)
         IN  IF f.status = "missing" THEN Threw(msg) ELSE f

LoadOrEmpty_throws(args, key, file) ==
    IF Bundled(args) THEN BundledFacet(args, key)
    ELSE LET f == ReadFile(args, file)
         IN  IF f.status = "missing" THEN Threw("Cannot find file.") ELSE f

\* a facet whose missing file is an empty list
LoadOrEmpty(args, key, file) ==
    IF Bundled(args) THEN BundledFacet(args, key)
    ELSE LET f == ReadFile(args, file)
         IN  IF f.status = "missing" THEN Returned(<<>>) ELSE f

loadDeploymentFile(args) ==
    LoadOrThrow(args, "deployment", DEPLOYMENT_FILENAME, "Cannot find deployment for network")

getTarget_throwsOnMissing(args) ==
    LET d == loadDeploymentFile(args)
    IN  IF d.status # "ok" THEN d
        ELSE IF args.contract # <<>>
        THEN IF HasKey(d.value.targets, args.contract)
             THEN [status |-> "ok", kind |-> "object",
                   value |-> Lookup(d.value.targets, args.contract)]
             ELSE [status |-> "throw", kind |-> "undefined", value |-> EmptyObj]
        ELSE [status |-> "ok", kind |-> "table", value |-> d.value.targets]

\* deployment.targets[contract]: undefined for a name that is no key
getTarget(args) ==
    LET d == loadDeploymentFile(args)
    IN  IF d.status # "ok" THEN d
        ELSE IF args.contract # <<>>
        THEN IF HasKey(d.value.targets, args.contract)
             THEN [status |-> "ok", kind |-> "object",
                   value |-> Lookup(d.value.targets, args.contract)]
             ELSE [status |-> "ok", kind |-> "undefined", value |-> EmptyObj]
        ELSE [status |-> "ok", kind |-> "table", value |-> d.value.targets]

getSource(args) ==
    LET d == loadDeploymentFile(args)
    IN  IF d.status # "ok" THEN d
        ELSE IF args.contract # <<>>
        THEN IF HasKey(d.value.sources, args.contract)
             THEN [status |-> "ok", kind |-> "object",
                   value |-> Lookup(d.value.sources, args.contract)]
             ELSE [status |-> "ok", kind |-> "undefined", value |-> EmptyObj]
        ELSE [status |-> "ok", kind |-> "table", value |-> d.value.sources]

-----------------------------------------------------------------------------
(* Metadata Aggregators *)

\* Object.entries(feeds).reduce(...): each entry is assigned onto the
\* registry's own object for its asset, which memo[asset] then is; the
\* target assets[asset] of an asset the registry lacks is undefined, and
\* Object.assign throws a TypeError, after the assignments already made.
RECURSIVE MixInFeeds(_, _, _, _)
MixInFeeds(feeds, i, memo, reg) ==
    IF i > Len(feeds) THEN Outcome(Returned(memo), reg)
    ELSE LET asset == feeds[i].key
         IN  IF asset \notin DOMAIN reg
             THEN Outcome(Threw("TypeError"), reg)
             ELSE LET merged == Assign(reg[asset], feeds[i].value)
                      reg2 == [reg EXCEPT ![asset] = merged]
                      memo2 == [a \in (DOMAIN memo) \cup {asset} |-> reg2[a]]
                  IN  MixInFeeds(feeds, i + 1, memo2, reg2)

getFeeds(reg, args) ==
    LET f == LoadOrThrow(args, "feeds", FEEDS_FILENAME, "Cannot find feeds file.")
    IN  IF f.status # "ok" THEN Outcome(f, reg)
        ELSE MixInFeeds(f.value, 1, EmptyObj, reg)

getOffchainFeeds(args) ==
    LoadOrThrow(args, "offchainFeeds", OFFCHAIN_FEEDS_FILENAME,
                "Cannot find off-chain feeds file.")

\* synths.find(({ name }) => name === wanted): the first synth of that name
FindSynth(synths, wanted) ==
    LET hits == {i \in 1..Len(synths) : Has(synths[i], "name") /\ synths[i].name = wanted}
    IN  IF hits = {} THEN EmptyObj
        ELSE synths[CHOOSE i \in hits : \A j \in hits : i <= j]

\* a value as `if (v)` reads it: undefined and the empty string are falsy
Truthy(o, k) == Has(o, k) /\ ~(o[k].t = "str" /\ o[k].s = <<>>)

PopulateIndexEntry(reg, indexEntry) ==
    Assign(Source(reg, indexEntry.asset), indexEntry)

\* Object.assign({ feed }, synth): the feed is a default the synth overrides;
\* the Feed record's value is what getFeeds built, read after the merge
MixInFeed_feedWins(feeds, synth) ==
    IF Has(feeds, synth.asset)
    THEN Assign(synth,
                [feed |-> IF Has(feeds[synth.asset], "feed")
                          THEN feeds[synth.asset].feed ELSE JsUndefined])
    ELSE synth

MixInFeed(feeds, synth) ==
    IF Has(feeds, synth.asset)
    THEN Assign([feed |-> IF Has(feeds[synth.asset], "feed")
                          THEN feeds[synth.asset].feed ELSE JsUndefined],
                synth)
    ELSE synth

\* `if (typeof synth.index === 'string')`: the index of the first synth of
\* that name replaces the placeholder; none, or a falsy one, is an Error
ResolveIndex_keepsPlaceholder(synths, synth) ==
    Returned([k \in (DOMAIN synth) \ {"index"} |-> synth[k]])

ResolveIndex(synths, synth) ==
    IF Has(synth, "index") /\ synth.index.t = "str"
    THEN LET found == FindSynth(synths, synth.index.s)
         IN  IF ~Truthy(found, "index")
             THEN Threw("index mapping cannot be found")
             ELSE Returned(Assign(synth, [index |-> found.index]))
    ELSE Returned(synth)

\* `if (synth.index) synth.index = synth.index.map(...)`: a string has no
\* map, which is a TypeError
PopulateIndex(reg, synth) ==
    IF ~Truthy(synth, "index") THEN Returned(synth)
    ELSE IF synth.index.t # "arr" THEN Threw("TypeError")
    ELSE Returned(Assign(synth,
                         [index |-> Arr([e \in 1..Len(synth.index.a) |->
                                          PopulateIndexEntry(reg, synth.index.a[e])])]))

\* The body of synths.map in getSynths for one synth: the populated synth,
\* or the error it throws.
PopulateSynth(reg, feeds, synths, raw) ==
    LET mixed == MixInFeed(feeds, Assign(Source(reg, raw.asset), raw))
        resolved == ResolveIndex(synths, mixed)
    IN  IF resolved.status # "ok" THEN resolved
        ELSE PopulateIndex(reg, resolved.value)

getSynths(reg, args) ==
    LET l == LoadOrThrow(args, "synths", SYNTHS_FILENAME, "Cannot find synth list.")
    IN  IF l.status # "ok" THEN Outcome(l, reg)
        ELSE IF args.skipPopulate THEN Outcome(l, reg)
        ELSE LET synths == l.value
                 f == getFeeds(reg, args)
             IN  IF f.result.status # "ok" THEN f
                 ELSE LET out == [i \in 1..Len(synths) |->
                                    PopulateSynth(f.assets, f.result.value, synths, synths[i])]
                      IN  IF \E i \in 1..Len(synths) : out[i].status # "ok"
                          THEN Outcome(
                                 out[CHOOSE i \in 1..Len(synths) :
                                       /\ out[i].status # "ok"
                                       /\ \A j \in 1..(i - 1) : out[j].status = "ok"],
                                 f.assets)
                          ELSE Outcome(Returned([i \in 1..Len(synths) |-> out[i].value]),
                                       f.assets)

\* ['zBTC', 'zETH', 'zLINK'] and ['zBTC', 'zETH']
FuturesWithIncorrectAssetKey ==
    {<<"z", "B", "T", "C">>, <<"z", "E", "T", "H">>, <<"z", "L", "I", "N", "K">>}
PerpsWithIncorrectAssetKey ==
    {<<"z", "B", "T", "C">>, <<"z", "E", "T", "H">>}

MixInAsset_keepsKey(reg, market, legacy) ==
    Assign(Source(reg, market.asset), market)

\* Object.assign({}, assets[assetKey], market)
MixInAsset(reg, market, legacy) ==
    LET assetKey == IF market.asset \in legacy THEN Slice(market.asset, 1) ELSE market.asset
    IN  Assign(Source(reg, assetKey), market)

getFuturesMarkets(reg, args) ==
    LET l == LoadOrEmpty(args, "futuresMarkets", FUTURES_MARKETS_FILENAME)
    IN  IF l.status # "ok" THEN l
        ELSE Returned([i \in 1..Len(l.value) |->
                         MixInAsset(reg, l.value[i], FuturesWithIncorrectAssetKey)])

getPerpsMarkets(reg, args) ==
    LET l == LoadOrEmpty(args, "perpsv2Markets", PERPS_V2_MARKETS_FILENAME)
    IN  IF l.status # "ok" THEN l
        ELSE Returned([i \in 1..Len(l.value) |->
                         MixInAsset(reg, l.value[i], PerpsWithIncorrectAssetKey)])

getStakingRewards(args) ==
    LoadOrEmpty(args, "rewards", STAKING_REWARDS_FILENAME)

getShortingRewards(args) ==
    LoadOrEmpty(args, "shortingRewards", SHORTING_REWARDS_FILENAME)

\* { tag, release, date, commit, block } of a release: a field the release
\* lacks is destructured as undefined
ReleaseStamp(version) ==
    [k \in {"tag", "release", "date", "commit", "block"} |->
        IF Has(version, k) THEN version[k] ELSE JsUndefined]

RECURSIVE VersionsByContract_lastOnly(_, _, _)
VersionsByContract_lastOnly(versions, i, memo) ==
    IF i > Len(versions) THEN memo
    ELSE LET version == versions[i].value
             contracts == version.contracts
             names == {contracts[j].key : j \in 1..Len(contracts)}
         IN  VersionsByContract_lastOnly(
                 versions, i + 1,
                 [c \in (DOMAIN memo) \cup names |->
                     IF c \in names
                     THEN <<Assign(ReleaseStamp(version), Lookup(contracts, c))>>
                     ELSE memo[c]])

\* Object.values(versions).reduce(...) of getVersions, from release i on
RECURSIVE VersionsByContract(_, _, _)
VersionsByContract(versions, i, memo) ==
    IF i > Len(versions) THEN memo
    ELSE LET version == versions[i].value
             contracts == version.contracts
             names == {contracts[j].key : j \in 1..Len(contracts)}
             memo2 == [c \in (DOMAIN memo) \cup names |->
                          LET before == IF c \in DOMAIN memo THEN memo[c] ELSE <<>>
                          IN  IF c \in names
                              THEN Append(before,
                                          Assign(ReleaseStamp(version), Lookup(contracts, c)))
                              ELSE before]
         IN  VersionsByContract(versions, i + 1, memo2)

getVersions(args) ==
    LET v == LoadOrThrow(args, "versions", VERSIONS_FILENAME,
                         "Cannot find versions for network.")
    IN  IF v.status # "ok" THEN v
        ELSE IF args.byContract
        THEN Returned(VersionsByContract(v.value, 1, EmptyObj))
        ELSE v

\* the characters of the model in the order of their character codes
AsciiOrder ==
    <<"-", "/", "0", "1", "2", "3", "4", "5", "6", "7", "8", "9",
      "A", "B", "C", "D", "E", "F", "G", "H", "I", "J", "K", "L", "M",
      "N", "O", "P", "Q", "R", "S", "T", "U", "V", "W", "X", "Y", "Z",
      "a", "b", "c", "d", "e", "f", "g", "h", "i", "j", "k", "l", "m",
      "n", "o", "p", "q", "r", "s", "t", "u", "v", "w", "x", "y", "z">>

CharCode(c) == CHOOSE i \in 1..Len(AsciiOrder) : AsciiOrder[i] = c

\* a > b on strings: by the first differing character, a proper prefix first
RECURSIVE StrGreater(_, _)
StrGreater(a, b) ==
    IF a = <<>> THEN FALSE
    ELSE IF b = <<>> THEN TRUE
    ELSE IF Head(a) = Head(b) THEN StrGreater(Tail(a), Tail(b))
    ELSE CharCode(Head(a)) > CharCode(Head(b))

InsertToken_appends(sorted, token) == Append(sorted, token)

\* .sort((a, b) => (a.symbol > b.symbol ? 1 : -1)) as the runtime's insertion
\* sort runs it: each token goes after the tokens whose symbol it is greater
\* than
InsertToken(sorted, token) ==
    LET after == {i \in 1..Len(sorted) : StrGreater(token.symbol, sorted[i].symbol)}
        n == Cardinality(after)
    IN  SubSeq(sorted, 1, n) \o <<token>> \o SubSeq(sorted, n + 1, Len(sorted))

RECURSIVE SortTokens(_, _, _)
SortTokens(tokens, i, sorted) ==
    IF i > Len(tokens) THEN sorted
    ELSE SortTokens(tokens, i + 1, InsertToken(sorted, tokens[i]))

HZN == <<"H", "Z", "N">>
ProxySynthetix == <<"P", "r", "o", "x", "y", "S", "y", "n", "t", "h", "e", "t", "i", "x">>
Proxy == <<"P", "r", "o", "x", "y">>

\* One token of getTokens.  A field whose value is undefined (no proxy
\* target, no index, no feed, no description) is left out of the object.
SynthToken(targets, synth) ==
    LET proxy == Proxy \o synth.name
        fixed == [symbol |-> synth.name, asset |-> synth.asset, decimals |-> 18]
        name == IF Has(synth, "description") THEN [name |-> synth.description] ELSE EmptyObj
        address == IF HasKey(targets, proxy) /\ Has(Lookup(targets, proxy), "address")
                   THEN [address |-> Lookup(targets, proxy).address] ELSE EmptyObj
        index == IF Has(synth, "index") THEN [index |-> synth.index] ELSE EmptyObj
        feed == IF Has(synth, "feed") /\ synth.feed # JsUndefined
                THEN [feed |-> synth.feed] ELSE EmptyObj
    IN  Assign(Assign(Assign(Assign(fixed, name), address), index), feed)

\* getTokens takes { network, path, fs, useOvm } only: a deploymentPath
\* given to it is not passed on to getSynths, getTarget and getFeeds
TokenArgs(args) ==
    [network |-> args.network, useOvm |-> args.useOvm, deploymentPath |-> FALSE,
     path |-> args.path, fs |-> args.fs, skipPopulate |-> FALSE, contract |-> <<>>]

getTokens(reg, args) ==
    LET a == TokenArgs(args)
        s == getSynths(reg, a)
        t == getTarget(a)
        f == getFeeds(s.assets, a)
    IN  IF s.result.status # "ok" THEN s
        ELSE IF t.status # "ok" THEN Outcome([status |-> t.status, value |-> t.value], s.assets)
        ELSE IF f.result.status # "ok" THEN f
        ELSE IF ~HasKey(t.value, ProxySynthetix) THEN Outcome(Threw("TypeError"), f.assets)
        ELSE IF ~Has(f.result.value, HZN) THEN Outcome(Threw("TypeError"), f.assets)
        ELSE LET native == Assign(
                     [symbol |-> HZN, asset |-> HZN, name |-> "Synthetix",
                      address |-> Lookup(t.value, ProxySynthetix).address, decimals |-> 18],
                     IF Has(f.result.value[HZN], "feed") /\ f.result.value[HZN].feed # JsUndefined
                     THEN [feed |-> f.result.value[HZN].feed] ELSE EmptyObj)
                 listed == SelectSeq(s.result.value,
                                     LAMBDA x : ~(Has(x, "category") /\ x.category = "internal"))
                 tokens == [i \in 1..Len(listed) |-> SynthToken(t.value, listed[i])]
             IN  Outcome(Returned(<<native>> \o SortTokens(tokens, 1, <<>>)), f.assets)

-----------------------------------------------------------------------------
(* PerpsV2 proxied-market grouping *)

PerpsV2 == <<"P", "e", "r", "p", "s", "V", "2">>
proxyPrefix == PerpsV2 \o <<"P", "r", "o", "x", "y">>
marketPrefix == PerpsV2 \o <<"M", "a", "r", "k", "e", "t">>
PerpsV2MarketState == marketPrefix \o <<"S", "t", "a", "t", "e">>
excludedContracts_settingsOnly ==
    { PerpsV2 \o <<"M", "a", "r", "k", "e", "t", "S", "e", "t", "t", "i", "n", "g", "s">> }

excludedContracts ==
    { marketPrefix \o <<"S", "e", "t", "t", "i", "n", "g", "s">>,
      marketPrefix \o <<"D", "a", "t", "a">>,
      PerpsV2 \o <<"E", "x", "c", "h", "a", "n", "g", "e", "R", "a", "t", "e">> }
excludedLegacyContracts ==
    { PerpsV2 \o <<"D", "e", "l", "a", "y", "e", "d", "O", "r", "d", "e", "r">>,
      PerpsV2 \o <<"O", "f", "f", "c", "h", "a", "i", "n",
                   "D", "e", "l", "a", "y", "e", "d", "O", "r", "d", "e", "r">> }
prefixes ==
    << marketPrefix \o <<"V", "i", "e", "w", "s">>,
       PerpsV2 \o <<"D", "e", "l", "a", "y", "e", "d", "I", "n", "t", "e", "n", "t">>,
       PerpsV2 \o <<"D", "e", "l", "a", "y", "e", "d",
                    "E", "x", "e", "c", "u", "t", "i", "o", "n">>,
       marketPrefix \o <<"L", "i", "q", "u", "i", "d", "a", "t", "e">> >>

\* a fragment name as `f.name &&` reads it
NameTruthy(f) == Has(f, "name") /\ f.name # <<>>

\* _consolidateAbi, from fragment i of currentAbi on
RECURSIVE consolidateAbi(_, _, _)
consolidateAbi(currentAbi, i, consolidatedAbi) ==
    IF i > Len(currentAbi) THEN consolidatedAbi
    ELSE LET abiFragment == currentAbi[i]
             known == \E j \in 1..Len(consolidatedAbi) :
                        /\ consolidatedAbi[j].type = abiFragment.type
                        /\ NameTruthy(consolidatedAbi[j])
                        /\ NameTruthy(abiFragment)
                        /\ consolidatedAbi[j].name = abiFragment.name
         IN  consolidateAbi(currentAbi, i + 1,
                            IF ~known /\ abiFragment.type # "constructor"
                            THEN Append(consolidatedAbi, abiFragment)
                            ELSE consolidatedAbi)

\* the market entry of a name, created with an empty abi when it is new
MarketEntry(PerpsV2Proxied, marketName) ==
    IF marketName \in DOMAIN PerpsV2Proxied
    THEN PerpsV2Proxied[marketName]
    ELSE [abi |-> <<>>]

PutMarket(PerpsV2Proxied, marketName, entry) ==
    [m \in (DOMAIN PerpsV2Proxied) \cup {marketName} |->
        IF m = marketName THEN entry ELSE PerpsV2Proxied[m]]

ComponentPrefix_genericOnly(target) ==
    IF StartsWith(target, marketPrefix) THEN marketPrefix ELSE <<>>

\* the prefix of the list that names the market of a component: the loop
\* does not stop at a match, so the last matching prefix is the one used
ComponentPrefix(target) ==
    LET hits == {i \in 1..Len(prefixes) : StartsWith(target, prefixes[i])}
    IN  IF hits # {} THEN prefixes[CHOOSE i \in hits : \A j \in hits : i >= j]
        ELSE IF StartsWith(target, marketPrefix) THEN marketPrefix
        ELSE <<>>

\* _analyzeAndIncludePerpsV2: the mapping after the target, or a TypeError
\* when the abi of a component is read from a source that is not there
analyzeAndIncludePerpsV2(target, targetData, sourceData, PerpsV2Proxied) ==
    IF \/ target \in excludedContracts
       \/ StartsWith(target, PerpsV2MarketState)
       \/ \E p \in excludedLegacyContracts : StartsWith(target, p)
    THEN Returned(PerpsV2Proxied)
    ELSE IF StartsWith(target, proxyPrefix)
    THEN LET marketName == Slice(target, Len(proxyPrefix))
             entry == MarketEntry(PerpsV2Proxied, marketName)
         IN  Returned(PutMarket(PerpsV2Proxied, marketName,
                                IF Has(targetData, "address")
                                THEN Assign(entry, [address |-> targetData.address])
                                ELSE entry))
    ELSE LET prefix == ComponentPrefix(target)
         IN  IF prefix = <<>> THEN Returned(PerpsV2Proxied)
             ELSE IF sourceData.kind # "object" \/ ~Has(sourceData.value, "abi")
             THEN Threw("TypeError")
             ELSE LET marketName == Slice(target, Len(prefix))
                      entry == MarketEntry(PerpsV2Proxied, marketName)
                  IN  Returned(PutMarket(PerpsV2Proxied, marketName,
                                 Assign(entry,
                                        [abi |-> consolidateAbi(sourceData.value.abi, 1,
                                                                entry.abi)])))

\* the loop of getPerpsV2ProxiedMarkets over the target names, from target i
RECURSIVE ScanTargets(_, _, _, _)
ScanTargets(args, targets, i, PerpsV2Proxied) ==
    IF i > Len(targets) THEN Returned(PerpsV2Proxied)
    ELSE LET target == targets[i].key
         IN  IF ~StartsWith(target, PerpsV2)
             THEN ScanTargets(args, targets, i + 1, PerpsV2Proxied)
             ELSE LET targetData == getTarget([args EXCEPT !.contract = target])
                      sourceData ==
                          getSource([args EXCEPT !.contract =
                                        IF Has(targetData.value, "source")
                                        THEN targetData.value.source ELSE <<>>])
                      step == analyzeAndIncludePerpsV2(target, targetData.value,
                                                       sourceData, PerpsV2Proxied)
                  IN  IF step.status # "ok" THEN step
                      ELSE ScanTargets(args, targets, i + 1, step.value)

\* every load of getPerpsV2ProxiedMarkets passes useOvm: false
getPerpsV2ProxiedMarkets(args) ==
    LET a == [args EXCEPT !.useOvm = FALSE]
        d == loadDeploymentFile(a)
    IN  IF d.status # "ok" THEN d
        ELSE ScanTargets(a, d.value.targets, 1, EmptyObj)

-----------------------------------------------------------------------------
(* ABI Decoder Facade *)

\* The 4-byte selector of a function is the hash of its name and input
\* types; the model keeps the name and the types themselves.  Call data is
\* [sig, args]: the selector it starts with and the encoded arguments.
Signature(abiItem) ==
    [name |-> abiItem.name,
     types |-> [i \in 1..Len(abiItem.inputs) |-> abiItem.inputs[i].type]]

\* abiDecoder.addABI(abi), from item i on: every named item that is not an event
\* is stored under its selector, replacing what was stored under it (an
\* event is stored under its full topic hash, which no call data selects)
RECURSIVE addABI(_, _, _)
addABI(state, abi, i) ==
    IF i > Len(abi) THEN state
    ELSE LET item == abi[i]
         IN  addABI(IF NameTruthy(item) /\ item.type # "event"
                    THEN [id \in (DOMAIN state) \cup {Signature(item)} |->
                             IF id = Signature(item) THEN item ELSE state[id]]
                    ELSE state,
                    abi, i + 1)

\* for (const { abi } of Object.values(sources)) abiDecoder.addABI(abi)
RECURSIVE addSources(_, _, _)
addSources(state, sources, i) ==
    IF i > Len(sources) THEN state
    ELSE addSources(addABI(state, sources[i].value.abi, 1), sources, i + 1)

migrateAbi ==
    << [type |-> "function", name |-> <<"m", "i", "g", "r", "a", "t", "e">>,
        inputs |-> <<>>] >>

\* String.prototype.toLowerCase
UpperCase == {AsciiOrder[i] : i \in 13..38}

LowerChar(c) == IF c \in UpperCase THEN AsciiOrder[CharCode(c) + 26] ELSE c

ToLowerCase(str) == [i \in 1..Len(str) |-> LowerChar(str[i])]

TypeAddress == <<"a", "d", "d", "r", "e", "s", "s">>
TypeUint256 == <<"u", "i", "n", "t", "2", "5", "6">>

\* abiDecoder.decodeMethod(data): undefined when no stored item has the
\* selector; decoding the arguments against other inputs than the data
\* encodes throws; the value of an address parameter is lower-cased
decodeMethod(state, calldata) ==
    IF calldata.sig \notin DOMAIN state
    THEN Returned([decoded |-> FALSE, method |-> EmptyObj])
    ELSE LET abiItem == state[calldata.sig]
         IN  IF Len(calldata.args) # Len(abiItem.inputs)
             THEN Threw("decodeParameters")
             ELSE Returned(
                    [decoded |-> TRUE,
                     method |-> [name |-> abiItem.name,
                                 params |-> [i \in 1..Len(abiItem.inputs) |->
                                               [name |-> abiItem.inputs[i].name,
                                                value |->
                                                  IF abiItem.inputs[i].type = TypeAddress
                                                  THEN Str(ToLowerCase(calldata.args[i].s))
                                                  ELSE calldata.args[i],
                                                type |-> abiItem.inputs[i].type]]]])

ContractAt_caseSensitive(targets, target) ==
    LET hits == {i \in 1..Len(targets) : targets[i].value.address = target}
    IN  IF hits = {} THEN Threw("TypeError")
        ELSE Returned(targets[CHOOSE i \in hits : \A j \in hits : i <= j].value.name)

\* Object.values(targets).filter(...)[0].name: the name of the first target
\* with the address, a TypeError when there is none
ContractAt(targets, target) ==
    LET hits == {i \in 1..Len(targets) :
                   ToLowerCase(targets[i].value.address) = ToLowerCase(target)}
    IN  IF hits = {} THEN Threw("TypeError")
        ELSE Returned(targets[CHOOSE i \in hits : \A j \in hits : i <= j].value.name)

\* ---- toBytes32, fromBytes32 (web3-utils) ----

NUL == "NUL"

\* the characters of the model's identifiers and their character codes in
\* hexadecimal; NUL is the character of code 0
CharCodes ==
    << [char |-> NUL, hex |-> <<"0", "0">>],
       [char |-> "1", hex |-> <<"3", "1">>],
       [char |-> "B", hex |-> <<"4", "2">>],
       [char |-> "C", hex |-> <<"4", "3">>],
       [char |-> "D", hex |-> <<"4", "4">>],
       [char |-> "E", hex |-> <<"4", "5">>],
       [char |-> "H", hex |-> <<"4", "8">>],
       [char |-> "S", hex |-> <<"5", "3">>],
       [char |-> "T", hex |-> <<"5", "4">>],
       [char |-> "U", hex |-> <<"5", "5">>],
       [char |-> "Z", hex |-> <<"5", "a">>],
       [char |-> "a", hex |-> <<"6", "1">>],
       [char |-> "z", hex |-> <<"7", "a">>] >>

HexOfChar(c) == CharCodes[CHOOSE i \in 1..Len(CharCodes) : CharCodes[i].char = c].hex

\* String.fromCharCode(parseInt(pair, 16)); "?" stands for every character
\* that is none of CharCodes
CharOfHex(pair) ==
    LET hits == {i \in 1..Len(CharCodes) : CharCodes[i].hex = ToLowerCase(pair)}
    IN  IF hits = {} THEN "?" ELSE CharCodes[CHOOSE i \in hits : TRUE].char

RECURSIVE Flatten(_)
Flatten(seqs) == IF seqs = <<>> THEN <<>> ELSE Head(seqs) \o Flatten(Tail(seqs))

RECURSIVE Repeat(_, _)
Repeat(c, n) == IF n <= 0 THEN <<>> ELSE <<c>> \o Repeat(c, n - 1)

ZeroX == <<"0", "x">>

\* w3utils.asciiToHex: two hexadecimal digits per character after 0x, and
\* 0x00 for the empty string
asciiToHex(str) ==
    IF str = <<>> THEN ZeroX \o <<"0", "0">>
    ELSE ZeroX \o Flatten([i \in 1..Len(str) |-> HexOfChar(str[i])])

\* w3utils.rightPad of a 0x string: zeros are appended up to `chars` digits
\* after the prefix, and nothing is cut from a longer string
rightPad(string, chars) ==
    LET digits == Slice(string, 2)
    IN  ZeroX \o digits \o Repeat("0", chars - Len(digits))

toBytes32(key) == rightPad(asciiToHex(key), 64)

HexDigitChars ==
    {"0", "1", "2", "3", "4", "5", "6", "7", "8", "9", "a", "b", "c", "d", "e", "f",
     "A", "B", "C", "D", "E", "F"}

\* w3utils.isHexStrict: /^(-)?0x[0-9a-f]*$/i, without the sign
isHexStrict(hex) ==
    /\ StartsWith(hex, ZeroX)
    /\ \A i \in 3..Len(hex) : hex[i] \in HexDigitChars

\* w3utils.hexToAscii: an Error for what is not a hex string, else one
\* character per two digits after 0x, the characters of code 0 included
hexToAscii(hex) ==
    IF ~isHexStrict(hex) THEN Threw("The parameter must be a valid HEX string.")
    ELSE LET n == (Len(hex) - 2 + 1) \div 2
         IN  Returned([i \in 1..n |->
                          CharOfHex(SubSeq(hex, 2 * i + 1,
                                           IF 2 * i + 2 <= Len(hex) THEN 2 * i + 2 ELSE 2 * i + 1))])

fromBytes32(key) == hexToAscii(key)

\* ---- enhanceDecodedData ----

\* decoded values other than strings and arrays: a boolean, and a struct
\* with its fields in Object.keys order (positions first, then names)
Bool(b) ==
    [t |-> "bool", s |-> IF b THEN <<"t", "r", "u", "e">> ELSE <<"f", "a", "l", "s", "e">>,
     a |-> <<>>]
Tuple(fields) == [t |-> "tuple", s |-> <<>>, a |-> fields]

\* '\\error decoding\\'
ErrorDecoding ==
    <<"\\", "e", "r", "r", "o", "r", " ", "d", "e", "c", "o", "d", "i", "n", "g", "\\">>

Sentinel == [ascii |-> ErrorDecoding]

\* fromBytes32(p).replaceAll('\x00', ''), the sentinel when fromBytes32
\* throws (p is no string, or no hex string)
decodedBytes32(p) ==
    LET r == IF p.t = "str" THEN fromBytes32(p.s) ELSE Threw("not a string")
    IN  IF r.status = "ok"
        THEN [ascii |-> SelectSeq(r.value, LAMBDA c : c # NUL)]
        ELSE Sentinel

DigitChars == {"0", "1", "2", "3", "4", "5", "6", "7", "8", "9"}

\* /^-?[0-9]+$/
IsDecimalString(s) ==
    LET from == IF s # <<>> /\ s[1] = "-" THEN 2 ELSE 1
    IN  /\ Len(s) >= from
        /\ \A i \in from..Len(s) : s[i] \in DigitChars

RECURSIVE StripZeros(_)
StripZeros(digits) ==
    IF Len(digits) > 1 /\ Head(digits) = "0" THEN StripZeros(Tail(digits)) ELSE digits

\* a BN: sign and magnitude in decimal digits, zero never negative
BN(neg, digits) ==
    LET mag == StripZeros(digits)
    IN  [neg |-> neg /\ mag # <<"0">>, mag |-> mag]

\* w3utils.toBN(p): the number a decimal string writes; an Error for an
\* array, a boolean, a struct and for text (strings of hexadecimal digits
\* only, which toBN reads as a number in base 16, are not modelled)
toBN(p) ==
    IF p.t = "str" /\ IsDecimalString(p.s)
    THEN Returned(IF p.s[1] = "-" THEN BN(TRUE, Tail(p.s)) ELSE BN(FALSE, p.s))
    ELSE Threw("[number-to-bn] invalid number value")

\* value.div(toBN(1eN)): division by a power of ten drops the last N digits
\* of the magnitude, so the quotient is rounded toward zero
DivPow10(value, n) ==
    IF Len(value.mag) <= n THEN BN(FALSE, <<"0">>)
    ELSE BN(value.neg, SubSeq(value.mag, 1, Len(value.mag) - n))

\* value.toString()
BNToString(value) == (IF value.neg THEN <<"-">> ELSE <<>>) \o value.mag

\* how many digits follow each other from position i on
DigitRun(s, i) == Cardinality({j \in i..Len(s) : \A k \in i..j : s[k] \in DigitChars})

\* number.replace(/(\d)(?=(\d{3})+(?!\d))/g, '$1,'): a comma after every
\* digit that a positive multiple of three digits follows up to the end of
\* the run of digits
formatDecimals(number) ==
    Flatten([i \in 1..Len(number) |->
                IF /\ number[i] \in DigitChars
                   /\ DigitRun(number, i + 1) > 0
                   /\ DigitRun(number, i + 1) % 3 = 0
                THEN <<number[i], ",">> ELSE <<number[i]>>])

\* bp is the quotient as toString gives it, decimal and number go through
\* formatDecimals; the sentinel when toBN throws
decodeUint(p) ==
    LET value == toBN(p)
    IN  IF value.status # "ok" THEN Sentinel
        ELSE [bp |-> BNToString(DivPow10(value.value, 14)),
              decimal |-> formatDecimals(BNToString(DivPow10(value.value, 18))),
              number |-> formatDecimals(BNToString(value.value))]

TypeBytes32 == <<"b", "y", "t", "e", "s", "3", "2">>
TypeBytes32Array == TypeBytes32 \o <<"[", "]">>
TypeTuple == <<"t", "u", "p", "l", "e">>
TypeInt == <<"i", "n", "t">>

\* /u?int[1-3][0-9]?./.test(type): somewhere in the type, "int", a digit
\* from 1 to 3 and at least one more character
IntPattern(type) ==
    \E i \in 1..Len(type) :
        /\ i + 4 <= Len(type)
        /\ SubSeq(type, i, i + 2) = TypeInt
        /\ type[i + 3] \in {"1", "2", "3"}

\* isNaN(key): false for the positions of a struct ("0", "1", ...)
IsNaN(key) == ~(\A i \in 1..Len(key) : key[i] \in DigitChars)

\* one field of a tuple: startsWith is called on the field outside any try,
\* so a field that is no string raises a TypeError
EnhanceField(field) ==
    IF field.t # "str" THEN Threw("TypeError")
    ELSE IF StartsWith(field.s, ZeroX)
    THEN IF Len(field.s) = 66
         THEN Returned([original |-> field, enhanced |-> decodedBytes32(field)])
         ELSE Returned(field)
    ELSE Returned([original |-> field, enhanced |-> decodeUint(field)])

\* the tuple branch: the named fields, each replaced by its enhancement
EnhanceTuple(value) ==
    LET named == SelectSeq(value.a, LAMBDA e : IsNaN(e.key))
        fields == [i \in 1..Len(named) |-> EnhanceField(named[i].value)]
    IN  IF \E i \in 1..Len(fields) : fields[i].status # "ok"
        THEN Threw("TypeError")
        ELSE Returned([i \in 1..Len(named) |->
                          [key |-> named[i].key, value |-> fields[i].value]])

\* the callback of decoded.method.params.map
EnhanceParam(p) ==
    IF p.type = TypeBytes32
    THEN Returned(Assign(p, [enhanced |-> decodedBytes32(p.value)]))
    ELSE LET q == IF p.type = TypeBytes32Array
                  THEN [p EXCEPT !.value =
                          Arr([i \in 1..Len(p.value.a) |->
                                  [original |-> p.value.a[i],
                                   enhanced |-> decodedBytes32(p.value.a[i])]])]
                  ELSE p
         IN  IF IntPattern(q.type)
             THEN Returned(Assign(q, [enhanced |-> decodeUint(q.value)]))
             ELSE IF q.type = TypeTuple
             THEN LET values == EnhanceTuple(q.value)
                  IN  IF values.status # "ok" THEN values
                      ELSE Returned([q EXCEPT !.value = Tuple(values.value)])
             ELSE Returned(q)

\* a TypeError when decodeMethod returned undefined (decoded.method.params)
\* and when a tuple field raises one; else the result with every parameter
\* replaced by what the callback returns
enhanceDecodedData(decoded) ==
    IF ~decoded.decoded THEN Threw("TypeError")
    ELSE LET params == [i \in 1..Len(decoded.method.params) |->
                           EnhanceParam(decoded.method.params[i])]
         IN  IF \E i \in 1..Len(params) : params[i].status # "ok"
             THEN Threw("TypeError")
             ELSE Returned([decoded EXCEPT !.method.params =
                              [i \in 1..Len(params) |-> params[i].value]])

\* decode takes no deploymentPath: getSource and getTarget get
\* { network, path, fs, useOvm }
DecodeArgs(args) ==
    [network |-> args.network, useOvm |-> args.useOvm, deploymentPath |-> FALSE,
     path |-> args.path, fs |-> args.fs, contract |-> <<>>]

\* decode: the result, and the registrations the shared decoder holds
\* afterwards (also when a later step throws)
decode(state, args) ==
    LET a == DecodeArgs(args)
        sources == getSource(a)
    IN  IF sources.status # "ok"
        THEN [result |-> [status |-> sources.status, value |-> sources.value],
              abiState |-> state]
        ELSE LET s1 == addSources(state, sources.value, 1)
                 s2 == IF args.decodeMigration THEN addABI(s1, migrateAbi, 1) ELSE s1
                 targets == getTarget(a)
                 contract == IF args.target # <<>>
                             THEN ContractAt(targets.value, args.target)
                             ELSE Returned(<<>>)
                 method == decodeMethod(s2, args.data)
             IN  [result |->
                    IF contract.status # "ok" THEN contract
                    ELSE IF method.status # "ok" THEN method
                    ELSE IF args.enhanceDecode
                    THEN enhanceDecodedData(
                             Assign(method.value, [contract |-> contract.value]))
                    ELSE Returned(Assign(method.value, [contract |-> contract.value])),
                  abiState |-> s2]

-----------------------------------------------------------------------------
(* The static inputs the model draws from *)

\* longest feeds table drawn
MaxFeeds == 2
\* longest synth list drawn
MaxSynths == 3
\* longest futures and perps market lists drawn
MaxMarkets == 1
\* most files missing from one directory
MaxAbsent == 1

BTC == <<"B", "T", "C">>
ETH == <<"E", "T", "H">>
USD == <<"U", "S", "D">>
DEFI == <<"D", "E", "F", "I">>
AVAX == <<"A", "V", "A", "X">>
XYZ == <<"X", "Y", "Z">>
LINK == <<"L", "I", "N", "K">>
zBTC == <<"z", "B", "T", "C">>
iBTC == <<"i", "B", "T", "C">>
zUSD == <<"z", "U", "S", "D">>
zDEFI == <<"z", "D", "E", "F", "I">>
iDEFI == <<"i", "D", "E", "F", "I">>
xDEFI == <<"x", "D", "E", "F", "I">>

\* the Asset registry as loaded; XYZ is no asset of it
Assets0 ==
    [a \in {BTC, ETH, USD, DEFI, AVAX, LINK, HZN} |->
        IF a = BTC THEN [asset |-> a, description |-> "Bitcoin", feed |-> "0xregBTC"]
        ELSE IF a = ETH THEN [asset |-> a, description |-> "Ether"]
        ELSE IF a = USD THEN [asset |-> a, description |-> "Dollars"]
        ELSE IF a = DEFI THEN [asset |-> a, description |-> "DeFi Index"]
        ELSE IF a = AVAX THEN [asset |-> a, description |-> "Avalanche"]
        ELSE IF a = LINK THEN [asset |-> a, description |-> "Chainlink"]
        ELSE [asset |-> a, description |-> "Horizon"]]

FeedEntries ==
    { [key |-> HZN, value |-> [asset |-> HZN, feed |-> "0xfeedHZN"]],
      [key |-> BTC, value |-> [asset |-> BTC, feed |-> "0xfeedBTC"]],
      [key |-> XYZ, value |-> [asset |-> XYZ, feed |-> "0xfeedXYZ"]] }

\* the sequences of at most n elements of S, none twice
InjSeqs(S, n) ==
    {q \in SeqsUpTo(S, n) : \A i, j \in 1..Len(q) : i # j => q[i] # q[j]}

FeedTables == InjSeqs(FeedEntries, MaxFeeds)

DefiIndex ==
    << [asset |-> BTC, weight |-> "60"],
       [asset |-> ETH, weight |-> "40", description |-> "Ether (index)"],
       [asset |-> XYZ, weight |-> "0"] >>

SynthRecs ==
    { [name |-> zBTC, asset |-> BTC, category |-> "crypto", description |-> "Synthetic Bitcoin"],
      [name |-> zBTC, asset |-> BTC, category |-> "crypto", feed |-> "0xownBTC"],
      [name |-> zDEFI, asset |-> DEFI, category |-> "index", index |-> Arr(DefiIndex)],
      [name |-> zDEFI, asset |-> DEFI, category |-> "index",
       index |-> Arr(<<[asset |-> ETH, weight |-> "100"]>>)],
      [name |-> iDEFI, asset |-> DEFI, category |-> "index", index |-> Str(zDEFI)],
      [name |-> xDEFI, asset |-> DEFI, category |-> "index", index |-> Str(iDEFI)],
      [name |-> iBTC, asset |-> BTC, category |-> "crypto", index |-> Str(zBTC)] }

SynthLists == SeqsUpTo(SynthRecs, MaxSynths)

MarketRecs ==
    { [asset |-> zBTC, marketKey |-> "zBTC"],
      [asset |-> AVAX, marketKey |-> "zAVAX"] }

MarketLists == SeqsUpTo(MarketRecs, MaxMarkets)

AddrA == <<"0", "x", "A", "b", "1">>
AddrB == <<"0", "x", "c", "D", "2">>
AddrC == <<"0", "x", "e", "F", "3">>

SrcToken == <<"T", "o", "k", "e", "n">>
SrcMarket == <<"M", "a", "r", "k", "e", "t">>
SrcViews == <<"V", "i", "e", "w", "s">>

FnTransfer ==
    [type |-> "function", name |-> <<"t", "r", "a", "n", "s", "f", "e", "r">>,
     inputs |-> <<[name |-> "to", type |-> TypeAddress], [name |-> "value", type |-> TypeUint256]>>]
FnBurn ==
    [type |-> "function", name |-> <<"b", "u", "r", "n">>,
     inputs |-> <<[name |-> "value", type |-> TypeUint256]>>]
FnClose ==
    [type |-> "function", name |-> <<"c", "l", "o", "s", "e">>, inputs |-> <<>>]
FnMigrate ==
    [type |-> "function", name |-> <<"m", "i", "g", "r", "a", "t", "e">>, inputs |-> <<>>]
Constructor == [type |-> "constructor", inputs |-> <<>>]
Fallback == [type |-> "fallback", inputs |-> <<>>]

TargetRec(name, address, source) ==
    [key |-> name, value |-> [name |-> name, address |-> address, source |-> source]]

MainDeployment ==
    [targets |->
        << TargetRec(ProxySynthetix, AddrA, SrcToken),
           TargetRec(Proxy \o zBTC, AddrB, SrcToken),
           TargetRec(proxyPrefix \o BTC, AddrC, SrcMarket),
           TargetRec(marketPrefix \o BTC, AddrC, SrcMarket),
           TargetRec(prefixes[1] \o BTC, AddrC, SrcViews),
           TargetRec(PerpsV2MarketState \o BTC, AddrC, SrcMarket) >>,
     sources |->
        << [key |-> SrcToken, value |-> [abi |-> <<Constructor, FnTransfer>>]],
           [key |-> SrcMarket, value |-> [abi |-> <<Constructor, Fallback, FnClose>>]],
           [key |-> SrcViews, value |-> [abi |-> <<Fallback, FnClose, FnBurn>>]] >>]

\* a deployment whose sources define migrate() and that has no perps market
TestDeployment ==
    [targets |->
        << TargetRec(ProxySynthetix, AddrB, SrcToken),
           TargetRec(Proxy \o zDEFI, AddrA, SrcToken) >>,
     sources |->
        << [key |-> SrcToken, value |-> [abi |-> <<Constructor, FnTransfer, FnMigrate>>]] >>]

Versions ==
    << [key |-> "v1", value |->
          [tag |-> "v1", release |-> "One", date |-> "d1", commit |-> "c1", block |-> "1",
           contracts |-> << [key |-> SrcToken, value |-> [address |-> AddrA]] >>]],
       [key |-> "v2", value |->
          [tag |-> "v2", release |-> "Two", date |-> "d2", commit |-> "c2", block |-> "2",
           contracts |-> << [key |-> SrcToken, value |-> [address |-> AddrB]],
                            [key |-> SrcMarket, value |-> [address |-> AddrC]] >>]] >>

Rewards == << [name |-> "zBTCReward", rewardsToken |-> "ProxySynthetix"] >>

\* the bundled data of one network (shortingRewards is its 'shorting-rewards')
Bundle(deployment, feeds, synths, futuresMarkets, perpsv2Markets) ==
    [deployment |-> deployment, feeds |-> feeds, offchainFeeds |-> feeds,
     synths |-> synths, futuresMarkets |-> futuresMarkets,
     perpsv2Markets |-> perpsv2Markets, rewards |-> Rewards,
     shortingRewards |-> Rewards, versions |-> Versions]

FileOfFacet ==
    [deployment |-> DEPLOYMENT_FILENAME, feeds |-> FEEDS_FILENAME,
     offchainFeeds |-> OFFCHAIN_FEEDS_FILENAME, synths |-> SYNTHS_FILENAME,
     futuresMarkets |-> FUTURES_MARKETS_FILENAME,
     perpsv2Markets |-> PERPS_V2_MARKETS_FILENAME,
     rewards |-> STAKING_REWARDS_FILENAME,
     shortingRewards |-> SHORTING_REWARDS_FILENAME,
     versions |-> VERSIONS_FILENAME]

FileNames == {FileOfFacet[k] : k \in DOMAIN FileOfFacet}

\* the files of a directory that holds the facets of `bundle`, less `absent`
Directory(bundle, absent) ==
    [f \in FileNames \ absent |->
        bundle[CHOOSE k \in DOMAIN FileOfFacet : FileOfFacet[k] = f]]

TokenSynths ==
    << [name |-> zDEFI, asset |-> DEFI, category |-> "index", index |-> Arr(DefiIndex)],
       [name |-> zBTC, asset |-> BTC, category |-> "crypto", description |-> "Synthetic Bitcoin"],
       [name |-> zUSD, asset |-> USD, category |-> "internal"] >>

HznFeeds == << [key |-> HZN, value |-> [asset |-> HZN, feed |-> "0xfeedHZN"]] >>

MainBundle ==
    Bundle(MainDeployment, HznFeeds, TokenSynths, <<[asset |-> zBTC, marketKey |-> "zBTC"]>>,
           <<[asset |-> AVAX, marketKey |-> "zAVAX"]>>)

TestBundle ==
    Bundle(TestDeployment,
           << [key |-> BTC, value |-> [asset |-> BTC, feed |-> "0xtestBTC"]],
              [key |-> HZN, value |-> [asset |-> HZN, feed |-> "0xtestHZN"]] >>,
           << [name |-> zDEFI, asset |-> DEFI, category |-> "index",
               index |-> Arr(<<[asset |-> ETH, weight |-> "100"]>>)] >>,
           <<[asset |-> AVAX, marketKey |-> "zAVAX"]>>, <<>>)

-----------------------------------------------------------------------------
(* Calls *)

\* the arguments of an accessor call; deploymentPath, path and fs say
\* whether the caller supplied them, contract <<>> that none was named
Args(network, useOvm, deploymentPath, path, fs) ==
    [network |-> network, useOvm |-> useOvm, deploymentPath |-> deploymentPath,
     path |-> path, fs |-> fs, contract |-> <<>>, skipPopulate |-> FALSE,
     byContract |-> FALSE]

BundledArgs ==
    { Args(MAINNET, FALSE, FALSE, FALSE, FALSE),
      Args(TESTNET, FALSE, FALSE, FALSE, FALSE),
      Args(MAINNET, TRUE, FALSE, FALSE, FALSE) }

MainnetArgs == {Args(MAINNET, FALSE, FALSE, FALSE, FALSE)}

ExplicitArgs ==
    { Args(MAINNET, FALSE, TRUE, TRUE, TRUE),
      Args(MAINNET, FALSE, FALSE, TRUE, TRUE),
      Args(MAINNET, FALSE, TRUE, FALSE, FALSE) }

NoContract == <<"N", "o">>
ContractNames == {<<>>, ProxySynthetix, Proxy \o zDEFI, NoContract}
SourceNames == {<<>>, SrcToken, NoContract}

Done(op, args, outcome) ==
    /\ call' = [op |-> op, args |-> args]
    /\ result' = outcome.result
    /\ assets' = outcome.assets
    /\ UNCHANGED <<data, disk, abiState, chain>>

CallLoadDeploymentFile(A) ==
    \E a \in A : Done("loadDeploymentFile", a, Outcome(loadDeploymentFile(a), assets))

CallGetTarget(A, contracts) ==
    \E a \in A, c \in contracts :
        LET args == [a EXCEPT !.contract = c]
        IN  Done("getTarget", args, Outcome(getTarget(args), assets))

CallGetSource(A, contracts) ==
    \E a \in A, c \in contracts :
        LET args == [a EXCEPT !.contract = c]
        IN  Done("getSource", args, Outcome(getSource(args), assets))

CallGetFeeds(A) ==
    \E a \in A : Done("getFeeds", a, getFeeds(assets, a))

CallGetOffchainFeeds(A) ==
    \E a \in A : Done("getOffchainFeeds", a, Outcome(getOffchainFeeds(a), assets))

CallGetSynths(A) ==
    \E a \in A, skip \in BOOLEAN :
        LET args == [a EXCEPT !.skipPopulate = skip]
        IN  Done("getSynths", args, getSynths(assets, args))

CallGetFuturesMarkets(A) ==
    \E a \in A : Done("getFuturesMarkets", a, Outcome(getFuturesMarkets(assets, a), assets))

CallGetPerpsMarkets(A) ==
    \E a \in A : Done("getPerpsMarkets", a, Outcome(getPerpsMarkets(assets, a), assets))

CallGetPerpsV2ProxiedMarkets(A) ==
    \E a \in A :
        Done("getPerpsV2ProxiedMarkets", a, Outcome(getPerpsV2ProxiedMarkets(a), assets))

CallGetStakingRewards(A) ==
    \E a \in A : Done("getStakingRewards", a, Outcome(getStakingRewards(a), assets))

CallGetShortingRewards(A) ==
    \E a \in A : Done("getShortingRewards", a, Outcome(getShortingRewards(a), assets))

CallGetVersions(A) ==
    \E a \in A, by \in BOOLEAN :
        LET args == [a EXCEPT !.byContract = by]
        IN  Done("getVersions", args, Outcome(getVersions(args), assets))

CallGetTokens(A) ==
    \E a \in A : Done("getTokens", a, getTokens(assets, a))

\* the arguments wrap's version of an accessor passes on: the bound
\* { network, deploymentPath, fs, path, useOvm }, overridden by `prop`
wrap(bound, prop) ==
    Assign([network |-> bound.network, deploymentPath |-> bound.deploymentPath,
            fs |-> bound.fs, path |-> bound.path, useOvm |-> bound.useOvm], prop)

CallWrappedGetTokens(A) ==
    \E a \in A :
        LET args == wrap(a, EmptyObj)
        IN  Done("getTokens", args, getTokens(assets, args))

\* call data: for transfer(address,uint256), burn(uint256), migrate(),
\* close(), burn with its argument missing, and a function no ABI of the
\* model defines
CallData ==
    { [sig |-> Signature(FnTransfer), args |-> <<Str(AddrA), Str(<<"1", "0", "0", "0">>)>>],
      [sig |-> Signature(FnBurn), args |-> <<Str(<<"5">>)>>],
      [sig |-> Signature(FnMigrate), args |-> <<>>],
      [sig |-> Signature(FnClose), args |-> <<>>],
      [sig |-> Signature(FnBurn), args |-> <<>>],
      [sig |-> [name |-> <<"n", "o">>, types |-> <<>>], args |-> <<>>] }

CallDecode(A, datas, targets, migrations, enhances) ==
    \E a \in A, d \in datas, t \in targets, m \in migrations, e \in enhances :
        LET args == [network |-> a.network, useOvm |-> a.useOvm,
                     deploymentPath |-> a.deploymentPath, path |-> a.path, fs |-> a.fs,
                     data |-> d, target |-> t, decodeMigration |-> m,
                     enhanceDecode |-> e]
            o == decode(abiState, args)
        IN  /\ call' = [op |-> "decode", args |-> args]
            /\ result' = o.result
            /\ abiState' = o.abiState
            /\ UNCHANGED <<assets, data, disk, chain>>

-----------------------------------------------------------------------------
(* Specifications *)

\* the network folders on disk hold what is bundled; the directory of an
\* explicit deploymentPath holds another deployment
DiskOf(bundles, absentDeployment, absentNetwork) ==
    [d \in (DOMAIN bundles) \cup {DeploymentDir} |->
        IF d = DeploymentDir
        THEN Directory(TestBundle, absentDeployment)
        ELSE Directory(bundles[d], absentNetwork)]

InitWith(bundles, absentDeployment, absentNetwork) ==
    /\ assets = Assets0
    /\ data = bundles
    /\ disk = DiskOf(bundles, absentDeployment, absentNetwork)
    /\ abiState = EmptyObj
    /\ chain = NoChain
    /\ call = NoCall
    /\ result = NoResult

\* Spec: the accessors on the bundled data of two networks, in any order.
\* The futures and the perps market lists of mainnet are the same list.
Init ==
    \E feeds \in FeedTables, markets \in MarketLists :
        InitWith([n \in {MAINNET, TESTNET} |->
                     IF n = MAINNET
                     THEN Bundle(MainDeployment, feeds, TokenSynths, markets, markets)
                     ELSE TestBundle],
                 {}, {})

Next ==
    \/ CallGetFeeds(BundledArgs)
    \/ CallGetSynths(BundledArgs)
    \/ CallGetTokens(BundledArgs)
    \/ CallGetFuturesMarkets(BundledArgs)
    \/ CallGetPerpsMarkets(BundledArgs)
    \/ CallGetVersions(BundledArgs)
    \/ CallGetTarget(BundledArgs, ContractNames)

Spec == Init /\ [][Next]_vars

\* SpecSynths: getSynths and getFeeds on every synth list and feeds table
\* of the bounds.
InitSynths ==
    \E feeds \in FeedTables, synths \in SynthLists :
        InitWith([n \in {MAINNET} |-> Bundle(MainDeployment, feeds, synths, <<>>, <<>>)],
                 {}, {})

NextSynths ==
    \/ CallGetFeeds(MainnetArgs)
    \/ CallGetSynths(MainnetArgs)

SpecSynths == InitSynths /\ [][NextSynths]_vars

\* SpecFiles: one call of an accessor with an explicit path, in a fresh
\* process, on directories that lack some of their files.
AbsentSets == {F \in SUBSET FileNames : Cardinality(F) <= MaxAbsent}

InitFiles ==
    \E absentDeployment \in AbsentSets, absentNetwork \in AbsentSets :
        InitWith([n \in {MAINNET} |-> MainBundle], absentDeployment, absentNetwork)

Fresh == call.op = "none"

NextFiles ==
    \/ Fresh /\ CallLoadDeploymentFile(ExplicitArgs)
    \/ Fresh /\ CallGetTarget(ExplicitArgs, ContractNames)
    \/ Fresh /\ CallGetSource(ExplicitArgs, SourceNames)
    \/ Fresh /\ CallGetFeeds(ExplicitArgs)
    \/ Fresh /\ CallGetOffchainFeeds(ExplicitArgs)
    \/ Fresh /\ CallGetSynths(ExplicitArgs)
    \/ Fresh /\ CallGetFuturesMarkets(ExplicitArgs)
    \/ Fresh /\ CallGetPerpsMarkets(ExplicitArgs)
    \/ Fresh /\ CallGetPerpsV2ProxiedMarkets(ExplicitArgs)
    \/ Fresh /\ CallGetStakingRewards(ExplicitArgs)
    \/ Fresh /\ CallGetShortingRewards(ExplicitArgs)
    \/ Fresh /\ CallGetVersions(ExplicitArgs)
    \/ Fresh /\ CallGetTokens(ExplicitArgs)
    \/ Fresh /\ CallDecode(ExplicitArgs,
                            {[sig |-> Signature(FnTransfer), args |-> <<Str(AddrA), Str(<<"1", "0", "0", "0">>)>>]},
                            {<<>>}, {FALSE}, {FALSE})

SpecFiles == InitFiles /\ [][NextFiles]_vars

\* SpecWrap: one call of getTokens with an explicit path, made directly or
\* through wrap, in a fresh process, on the directories of SpecFiles.
NextWrap ==
    \/ Fresh /\ CallGetTokens(ExplicitArgs)
    \/ Fresh /\ CallWrappedGetTokens(ExplicitArgs)

SpecWrap == InitFiles /\ [][NextWrap]_vars

\* SpecDecode: decode calls on the bundled data of two networks.
InitDecode ==
    InitWith([n \in {MAINNET, TESTNET} |-> IF n = MAINNET THEN MainBundle ELSE TestBundle],
             {}, {})

NextDecode ==
    CallDecode({Args(n, FALSE, FALSE, FALSE, FALSE) : n \in {MAINNET, TESTNET}},
               CallData, {<<>>, ToLowerCase(AddrA), AddrC, <<"0", "x", "0">>}, BOOLEAN,
               {FALSE})

SpecDecode == InitDecode /\ [][NextDecode]_vars

-----------------------------------------------------------------------------
(* The resolver specification: the arguments are drawn in the initial     *)
(* state and one call applies getFolderNameForNetwork to them.            *)

InitResolver ==
    /\ assets = <<>>
    /\ data = <<>>
    /\ disk = <<>>
    /\ abiState = EmptyObj
    /\ chain = NoChain
    /\ \E n \in NetworkNames, u \in BOOLEAN, f \in BOOLEAN :
         call = [op |-> "input", args |-> [network |-> n, useOvm |-> u, fork |-> f]]
    /\ result = NoResult

CallGetFolderNameForNetwork ==
    /\ call.op = "input"
    /\ call' = [op |-> "getFolderNameForNetwork", args |-> call.args]
    /\ result' = Returned(getFolderNameForNetwork(call.args))
    /\ UNCHANGED <<assets, data, disk, abiState, chain>>

NextResolver == CallGetFolderNameForNetwork

SpecResolver == InitResolver /\ [][NextResolver]_vars

-----------------------------------------------------------------------------
(* C1: the value a getFuturesMarkets or getPerpsMarkets call returns is   *)
(* the value the same call returns in a process where no accessor ran     *)
(* before it, i.e. on the Asset registry as loaded.                       *)
C1_HistoryIndependent ==
    /\ call.op = "getFuturesMarkets" =>
          result = getFuturesMarkets(Assets0, call.args)
    /\ call.op = "getPerpsMarkets" =>
          result = getPerpsMarkets(Assets0, call.args)

-----------------------------------------------------------------------------
(* C2: after any sequence of accessor calls every entry of the shared     *)
(* Asset registry has exactly the fields and values it had when the       *)
(* module was loaded.                                                     *)
C2_RegistryAsLoaded == assets = Assets0

-----------------------------------------------------------------------------
(* C3: the result of a decode call is the result of the same call on a    *)
(* decoder that holds only the ABIs of the requested network's sources,   *)
(* and the migrate signature only when decodeMigration is set in that     *)
(* call: no registration of an earlier call takes part.                   *)
C3_DecodeOwnAbisOnly ==
    call.op = "decode" => result = decode(EmptyObj, call.args).result

-----------------------------------------------------------------------------
(* What a getSynths call loaded *)

RawSynths == LoadOrThrow(call.args, "synths", SYNTHS_FILENAME, "").value
RawFeeds == LoadOrThrow(call.args, "feeds", FEEDS_FILENAME, "").value

IsRef(synth) == Has(synth, "index") /\ synth.index.t = "str"

\* the positions of the synths named `wanted` in the source list
Named(synths, wanted) == {j \in 1..Len(synths) : synths[j].name = wanted}

First(S) == CHOOSE j \in S : \A k \in S : j <= k

HasIndexArray(synth) == Has(synth, "index") /\ synth.index.t = "arr"

\* a getSynths call that populates, whose synths list loaded
PopulatedCall ==
    /\ call.op = "getSynths"
    /\ ~call.args.skipPopulate
    /\ LoadOrThrow(call.args, "synths", SYNTHS_FILENAME, "").status = "ok"

\* the index of synth i of the output has the entries of the index array of
\* the source synth src, in the same order, every field of an entry kept
IndexTakenFrom(out, i, src) ==
    /\ HasIndexArray(out[i])
    /\ Len(out[i].index.a) = Len(src.index.a)
    /\ \A e \in 1..Len(src.index.a) :
         \A k \in DOMAIN src.index.a[e] : out[i].index.a[e][k] = src.index.a[e][k]

-----------------------------------------------------------------------------
(* C4: in the output of getSynths, every synth whose raw index is a       *)
(* string S has as its index the index array of the source synth named S  *)
(* (the first of that name), entry by entry in the same order, each entry *)
(* being its entry of the Asset registry as loaded, overridden by the     *)
(* index entry's fields.                                                  *)
C4_IndexResolved ==
    (PopulatedCall /\ result.status = "ok") =>
        \A i \in 1..Len(RawSynths) :
            IsRef(RawSynths[i]) =>
                LET named == Named(RawSynths, RawSynths[i].index.s)
                    src == RawSynths[First(named)]
                IN  /\ named # {}
                    /\ HasIndexArray(src)
                    /\ HasIndexArray(result.value[i])
                    /\ Len(result.value[i].index.a) = Len(src.index.a)
                    /\ \A e \in 1..Len(src.index.a) :
                         result.value[i].index.a[e] =
                             Assign(Source(Assets0, src.index.a[e].asset), src.index.a[e])

-----------------------------------------------------------------------------
(* C5 as stated: getSynths throws whenever the string index S of some    *)
(* synth does not name exactly one synth of the source list, or names one *)
(* that carries no index array.                                           *)
C5_ThrowsUnlessExactlyOne ==
    (PopulatedCall /\ result.status # "none") =>
        \A i \in 1..Len(RawSynths) :
            IsRef(RawSynths[i]) =>
                LET named == Named(RawSynths, RawSynths[i].index.s)
                IN  (\/ Cardinality(named) # 1
                     \/ ~HasIndexArray(RawSynths[First(named)]))
                    => result.status = "throw"

(* C5 as amended: getSynths throws whenever no synth of the source list   *)
(* is named S or the first synth named S carries no index array; when it  *)
(* returns, every string index was replaced by the index array of the     *)
(* first synth of that name, never dropped or defaulted.                  *)
C5_ThrowsUnlessFirstResolves ==
    PopulatedCall =>
        \A i \in 1..Len(RawSynths) :
            IsRef(RawSynths[i]) =>
                LET named == Named(RawSynths, RawSynths[i].index.s)
                IN  /\ (\/ named = {}
                        \/ ~HasIndexArray(RawSynths[First(named)]))
                       => result.status = "throw"
                    /\ result.status = "ok" =>
                          IndexTakenFrom(result.value, i, RawSynths[First(named)])

\* the feeds loaded and joined, and the call threw on the first string
\* index, which names no synth of the list
C5_Witness ==
    /\ PopulatedCall
    /\ result.status = "throw"
    /\ result.value = "index mapping cannot be found"
    /\ \E i \in 1..Len(RawSynths) :
         /\ IsRef(RawSynths[i])
         /\ \A j \in 1..(i - 1) : ~IsRef(RawSynths[j])
         /\ Named(RawSynths, RawSynths[i].index.s) = {}

-----------------------------------------------------------------------------
(* C6 as stated: every output synth whose asset has a Feed record has    *)
(* that record's feed value as its feed, whatever feed the raw synth or   *)
(* the registry entry carries; every other field of the raw synth is kept.*)
C6_FeedRecordWins ==
    (PopulatedCall /\ result.status = "ok") =>
        \A i \in 1..Len(RawSynths) :
            LET raw == RawSynths[i]
                out == result.value[i]
            IN  /\ HasKey(RawFeeds, raw.asset) =>
                      /\ Has(out, "feed")
                      /\ out.feed = Lookup(RawFeeds, raw.asset).feed
                /\ \A k \in (DOMAIN raw) \ {"feed", "index"} : out[k] = raw[k]

(* C6 as amended: the feed of such a synth is the Feed record's feed      *)
(* value unless the raw synth carries a feed field of its own, which then *)
(* is kept (a feed field of the registry entry is not: the Feed record's  *)
(* value replaces it); every other field of the raw synth is kept.        *)
C6_RawFeedElseFeedRecord ==
    (PopulatedCall /\ result.status = "ok") =>
        \A i \in 1..Len(RawSynths) :
            LET raw == RawSynths[i]
                out == result.value[i]
            IN  /\ HasKey(RawFeeds, raw.asset) =>
                      /\ Has(out, "feed")
                      /\ out.feed = IF Has(raw, "feed") THEN raw.feed
                                    ELSE Lookup(RawFeeds, raw.asset).feed
                /\ \A k \in (DOMAIN raw) \ {"index"} : out[k] = raw[k]

\* a synth with no feed of its own, whose registry entry was loaded with
\* another feed than the Feed record's, got the Feed record's
C6_Witness ==
    /\ PopulatedCall
    /\ result.status = "ok"
    /\ \E i \in 1..Len(RawSynths) :
         /\ ~Has(RawSynths[i], "feed")
         /\ HasKey(RawFeeds, RawSynths[i].asset)
         /\ Has(Assets0[RawSynths[i].asset], "feed")
         /\ Assets0[RawSynths[i].asset].feed # Lookup(RawFeeds, RawSynths[i].asset).feed
         /\ result.value[i].feed = Lookup(RawFeeds, RawSynths[i].asset).feed
         /\ result.value[i].description = "Synthetic Bitcoin"

-----------------------------------------------------------------------------
(* The files of an explicit-path call *)

ExplicitMode(args) == args.deploymentPath \/ (args.path /\ args.fs)

\* the directory the explicit mode names: deploymentPath, else the folder of
\* the network under path
ExplicitDir(args) ==
    IF args.deploymentPath THEN DeploymentDir ELSE getFolderNameForNetwork(args)

FileAbsent(args, file) ==
    ~(ExplicitDir(args) \in DOMAIN disk /\ file \in DOMAIN disk[ExplicitDir(args)])

(* C7: in explicit-path mode with the deployment file absent,             *)
(* loadDeploymentFile throws, and so do getTarget, getSource,             *)
(* getPerpsV2ProxiedMarkets, getTokens and decode.                        *)
C7_AbsentDeploymentRaises ==
    ( /\ call.op \in {"loadDeploymentFile", "getTarget", "getSource",
                      "getPerpsV2ProxiedMarkets", "getTokens", "decode"}
      /\ ExplicitMode(call.args)
      /\ FileAbsent(call.args, DEPLOYMENT_FILENAME) )
    => result.status = "throw"

-----------------------------------------------------------------------------
\* the call was given path and fs, and `file` is absent from its directory
AbsentFor(op, file) ==
    /\ call.op = op
    /\ call.args.path /\ call.args.fs
    /\ FileAbsent(call.args, file)

ReturnedEmptyList == result.status = "ok" /\ result.value = <<>>

-----------------------------------------------------------------------------
\* a getTarget call that names a contract, whose deployment loaded
TargetNamed ==
    /\ call.op = "getTarget"
    /\ call.args.contract # <<>>
    /\ loadDeploymentFile(call.args).status = "ok"

LoadedTargets == loadDeploymentFile(call.args).value.targets

-----------------------------------------------------------------------------
(* C10: getFolderNameForNetwork returns the network unchanged when it     *)
(* contains 'ovm', otherwise network + '-ovm' when useOvm is set and the  *)
(* network when not; applying it to its own result with the same flag     *)
(* gives the result again, and the fork flag never changes the result.    *)
C10_FolderName ==
    call.op = "getFolderNameForNetwork" =>
        LET n == call.args.network
            u == call.args.useOvm
            r == result.value
        IN  /\ result.status = "ok"
            /\ Includes(n, OVM) => r = n
            /\ (~Includes(n, OVM) /\ u) => r = n \o DASH_OVM
            /\ (~Includes(n, OVM) /\ ~u) => r = n
            /\ \A f \in BOOLEAN :
                 /\ getFolderNameForNetwork([network |-> r, useOvm |-> u, fork |-> f]) = r
                 /\ getFolderNameForNetwork([network |-> n, useOvm |-> u, fork |-> f]) = r

\* a name that already contains 'ovm' was resolved with useOvm set
C10_Witness ==
    /\ call.op = "getFolderNameForNetwork"
    /\ call.args.useOvm
    /\ call.args.fork
    /\ Includes(call.args.network, OVM)
    /\ Len(call.args.network) > 3
    /\ result.value = call.args.network

-----------------------------------------------------------------------------
(* Chain-ID table *)

MaxProbeId == 100

Digits == <<"0", "1", "2", "3", "4", "5", "6", "7", "8", "9">>

\* the decimal string of a natural number: what a number becomes when it is
\* used as a property key
RECURSIVE NumberToString(_)
NumberToString(n) ==
    IF n < 10 THEN <<Digits[n + 1]>>
    ELSE NumberToString(n \div 10) \o <<Digits[(n % 10) + 1]>>

GOERLI == <<"g", "o", "e", "r", "l", "i">>
MUMBAI == <<"m", "u", "m", "b", "a", "i">>
SEPOLIA == <<"s", "e", "p", "o", "l", "i", "a">>
DASH_FORK == <<"-", "f", "o", "r", "k">>

\* the object literal of chainIdMapping, in the order it is written
ChainIdLiteral ==
    << [id |-> 56, body |-> [network |-> MAINNET]],
       [id |-> 97, body |-> [network |-> TESTNET]],
       [id |-> 5, body |-> [network |-> GOERLI]],
       [id |-> 80001, body |-> [network |-> MUMBAI]],
       [id |-> 421614, body |-> [network |-> SEPOLIA]],
       [id |-> 31337, body |-> [network |-> MAINNET, fork |-> TRUE]] >>

\* Object.entries of an object with integer keys: ascending numeric order,
\* every key a string
RECURSIVE IntegerKeyEntries(_, _)
IntegerKeyEntries(literal, left) ==
    IF left = {} THEN <<>>
    ELSE LET i == CHOOSE x \in left : \A y \in left : literal[x].id <= literal[y].id
         IN  <<[key |-> NumberToString(literal[i].id), value |-> literal[i].body]>>
             \o IntegerKeyEntries(literal, left \ {i})

WithDefaults_defaultsWin(body) ==
    Assign(body, [useOvm |-> FALSE, fork |-> FALSE])

\* Object.assign({ useOvm: false, fork: false }, body)
WithDefaults(body) ==
    Assign([useOvm |-> FALSE, fork |-> FALSE], body)

\* memo[key] = value on a table: a key already there keeps its place
Put(table, key, value) ==
    IF HasKey(table, key)
    THEN [i \in 1..Len(table) |->
             IF table[i].key = key THEN [key |-> key, value |-> value] ELSE table[i]]
    ELSE Append(table, [key |-> key, value |-> value])

chainIdMapping ==
    LET entries == IntegerKeyEntries(ChainIdLiteral, 1..Len(ChainIdLiteral))
    IN  [i \in 1..Len(entries) |->
            [key |-> entries[i].key, value |-> WithDefaults(entries[i].value)]]

SelectorKey(selector) ==
    selector.network \o (IF selector.useOvm THEN DASH_OVM ELSE <<>>)
                     \o (IF selector.fork THEN DASH_FORK ELSE <<>>)

RECURSIVE ReduceNetworkToChainId(_, _, _)
ReduceNetworkToChainId(entries, i, memo) ==
    IF i > Len(entries) THEN memo
    ELSE ReduceNetworkToChainId(entries, i + 1,
                                Put(memo, SelectorKey(entries[i].value), entries[i].key))

networkToChainId == ReduceNetworkToChainId(chainIdMapping, 1, <<>>)

\* typeof obj === 'number' ? obj : obj.id: the argument carries the number
\* as itself (isNumber) or as its id field
getNetworkFromId(obj) ==
    LET id == obj.id
    IN  IF HasKey(chainIdMapping, NumberToString(id))
        THEN [status |-> "ok", kind |-> "object",
              value |-> Lookup(chainIdMapping, NumberToString(id))]
        ELSE [status |-> "ok", kind |-> "undefined", value |-> EmptyObj]

\* the ids a call is tried with: those of the literal and the small numbers
ProbeIds == (0..MaxProbeId) \cup {ChainIdLiteral[i].id : i \in 1..Len(ChainIdLiteral)}

InitChain ==
    /\ assets = <<>>
    /\ data = <<>>
    /\ disk = <<>>
    /\ abiState = EmptyObj
    /\ chain = NoChain
    /\ \E n \in ProbeIds, isNumber \in BOOLEAN :
         call = [op |-> "input", args |-> [id |-> n, isNumber |-> isNumber]]
    /\ result = NoResult

CallGetNetworkFromId ==
    /\ call.op = "input"
    /\ call' = [op |-> "getNetworkFromId", args |-> call.args]
    /\ result' = getNetworkFromId(call.args)
    /\ UNCHANGED <<assets, data, disk, abiState, chain>>

\* networkToChainId[network + '-ovm'? + '-fork'?] on the selector obtained
ReadNetworkToChainId ==
    /\ call.op = "getNetworkFromId"
    /\ result.kind = "object"
    /\ LET key == SelectorKey(result.value)
       IN  /\ call' = [op |-> "networkToChainId",
                       args |-> [id |-> call.args.id, isNumber |-> call.args.isNumber,
                                 key |-> key]]
           /\ result' = IF HasKey(networkToChainId, key)
                        THEN [status |-> "ok", kind |-> "string",
                              value |-> Lookup(networkToChainId, key)]
                        ELSE [status |-> "ok", kind |-> "undefined", value |-> EmptyObj]
    /\ UNCHANGED <<assets, data, disk, abiState, chain>>

NextChain ==
    \/ CallGetNetworkFromId
    \/ ReadNetworkToChainId

SpecChain == InitChain /\ [][NextChain]_vars

InTable(id) == HasKey(chainIdMapping, NumberToString(id))

-----------------------------------------------------------------------------
(* Token lists *)

MaxTokens == 3

ZBTC == <<"Z", "B", "T", "C">>

\* synths of distinct names: one internal, one whose name differs from
\* another's only by case, some without a proxy target or a description
TokenRecs ==
    { [name |-> zBTC, asset |-> BTC, category |-> "crypto", description |-> "Synthetic Bitcoin"],
      [name |-> ZBTC, asset |-> BTC, category |-> "crypto"],
      [name |-> iBTC, asset |-> BTC, category |-> "crypto", description |-> "Inverse Bitcoin"],
      [name |-> zDEFI, asset |-> DEFI, category |-> "index", index |-> Arr(DefiIndex)],
      [name |-> zUSD, asset |-> USD, category |-> "internal"] }

TokenLists == InjSeqs(TokenRecs, MaxTokens)

TokenFeeds ==
    { HznFeeds,
      <<[key |-> BTC, value |-> [asset |-> BTC, feed |-> "0xfeedBTC"]]>> \o HznFeeds,
      <<[key |-> BTC, value |-> [asset |-> BTC, feed |-> "0xfeedBTC"]]>> }

InitTokens ==
    \E synths \in TokenLists, feeds \in TokenFeeds,
       deployment \in {MainDeployment, TestDeployment} :
        InitWith([n \in {MAINNET} |-> Bundle(deployment, feeds, synths, <<>>, <<>>)], {}, {})

NextTokens == CallGetTokens(MainnetArgs)

SpecTokens == InitTokens /\ [][NextTokens]_vars

\* a before b in the order of character codes
RECURSIVE CodeUnitsBefore(_, _)
CodeUnitsBefore(a, b) ==
    IF b = <<>> THEN FALSE
    ELSE IF a = <<>> THEN TRUE
    ELSE IF Head(a) = Head(b) THEN CodeUnitsBefore(Tail(a), Tail(b))
    ELSE CharCode(Head(a)) < CharCode(Head(b))

TokensReturned == call.op = "getTokens" /\ result.status = "ok"

TokenSource == data[getFolderNameForNetwork(call.args)]

\* the token that the synth `raw` is to give
IsTokenOf(token, raw) ==
    LET targets == TokenSource.deployment.targets
        proxy == Proxy \o raw.name
        synth == Assign(Source(Assets0, raw.asset), raw)
    IN  /\ token.symbol = raw.name
        /\ token.asset = raw.asset
        /\ token.decimals = 18
        /\ IF Has(synth, "description")
           THEN Has(token, "name") /\ token.name = synth.description
           ELSE ~Has(token, "name")
        /\ IF HasKey(targets, proxy)
           THEN Has(token, "address") /\ token.address = Lookup(targets, proxy).address
           ELSE ~Has(token, "address")

(* C12: the list getTokens returns starts with the native token (symbol   *)
(* and asset HZN, decimals 18, the address of target ProxySynthetix); the *)
(* rest is one token per synth that is not internal and none for an       *)
(* internal one, each with the synth's name as symbol, its description as *)
(* name, decimals 18 and the address of target Proxy<name> or none; the   *)
(* synth tokens ascend by symbol in character-code order, whatever the    *)
(* order of the source list.                                              *)
C12_TokenList ==
    TokensReturned =>
        LET raw == TokenSource.synths
            out == result.value
            listed == {i \in 1..Len(raw) : raw[i].category # "internal"}
        IN  /\ Len(out) = 1 + Cardinality(listed)
            /\ out[1].symbol = HZN
            /\ out[1].asset = HZN
            /\ out[1].decimals = 18
            /\ out[1].address = Lookup(TokenSource.deployment.targets, ProxySynthetix).address
            /\ \A i \in listed :
                 \E k \in 2..Len(out) :
                    /\ IsTokenOf(out[k], raw[i])
                    /\ \A l \in 2..Len(out) : out[l].symbol = raw[i].name => l = k
            /\ \A k \in 2..Len(out) : \E i \in listed : out[k].symbol = raw[i].name
            /\ \A k \in 2..(Len(out) - 1) : CodeUnitsBefore(out[k].symbol, out[k + 1].symbol)

\* the source list is zBTC, the internal zUSD, ZBTC: out came the native
\* token, then ZBTC, without name and address, then zBTC
C12_Witness ==
    /\ TokensReturned
    /\ Len(TokenSource.synths) = 3
    /\ TokenSource.synths[1].name = zBTC
    /\ TokenSource.synths[2].name = zUSD
    /\ TokenSource.synths[3].name = ZBTC
    /\ Len(result.value) = 3
    /\ result.value[2].symbol = ZBTC
    /\ ~Has(result.value[2], "address")
    /\ result.value[3].symbol = zBTC
    /\ Has(result.value[3], "address")

-----------------------------------------------------------------------------
(* Users *)

LOCALNET == <<"l", "o", "c", "a", "l">>

networks == <<LOCALNET, TESTNET, MAINNET, GOERLI, MUMBAI, SEPOLIA>>

testnetOwner == "0xD9e11e52D2fAF7E735613CcB54478461611Fd4b7"

\* `base` of getUsers, in the order it is written
UsersBase ==
    << [key |-> "owner", value |-> testnetOwner],
       [key |-> "deployer", value |-> testnetOwner],
       [key |-> "marketClosure", value |-> testnetOwner],
       [key |-> "oracle", value |-> "0xac1e8B385230970319906C03A1d8567e3996d1d5"],
       [key |-> "fee", value |-> "0xfeEFEEfeefEeFeefEEFEEfEeFeefEEFeeFEEFEeF"],
       [key |-> "zero", value |-> "0x0000000000000000000000000000000000000000"] >>

\* the third argument of each Object.assign({}, base, {...}) of `map`; the
\* entries of local and local-ovm are commented out in the source
UsersOverrides ==
    << [key |-> MAINNET, value |->
          << [key |-> "owner", value |-> "0x81752bC7D54a45bdB9005223d61D2CBd33d04857"],
             [key |-> "deployer", value |-> "0x3a10A18Ca6d9378010D446068d2Fd4dE5D272915"],
             [key |-> "marketClosure", value |-> "0xC105Ea57Eb434Fbe44690d7Dec2702e4a2FBFCf7"],
             [key |-> "oracle", value |-> "0xaC1ED4Fabbd5204E02950D68b6FC8c446AC95362"] >>],
       [key |-> TESTNET, value |-> <<>>],
       [key |-> GOERLI, value |->
          << [key |-> "owner", value |-> "0xA3F3E41cc12Abf3608480d9272fca44594a0cC4B"] >>],
       [key |-> MUMBAI, value |->
          << [key |-> "owner", value |-> "0xD9e11e52D2fAF7E735613CcB54478461611Fd4b7"] >>],
       [key |-> SEPOLIA, value |->
          << [key |-> "owner", value |-> "0xD9e11e52D2fAF7E735613CcB54478461611Fd4b7"] >>] >>

\* Object.assign on tables: the keys of `over` are put into `table` in turn
RECURSIVE AssignTable(_, _, _)
AssignTable(table, over, i) ==
    IF i > Len(over) THEN table
    ELSE AssignTable(Put(table, over[i].key, over[i].value), over, i + 1)

UsersMap ==
    [n \in 1..Len(UsersOverrides) |->
        [key |-> UsersOverrides[n].key,
         value |-> AssignTable(UsersBase, UsersOverrides[n].value, 1)]]

\* Object.entries of undefined is a TypeError; find returns the first entry
\* of that name, or undefined.  An absent user is falsy like "".
getUsers(args) ==
    LET folder == getFolderNameForNetwork(args)
    IN  IF ~HasKey(UsersMap, folder) THEN [status |-> "throw", kind |-> "error", value |-> <<>>]
        ELSE LET entries == Lookup(UsersMap, folder)
                 users == [i \in 1..Len(entries) |->
                              [name |-> entries[i].key, address |-> entries[i].value]]
                 hits == {i \in 1..Len(users) : users[i].name = args.user}
             IN  IF args.user = ""
                 THEN [status |-> "ok", kind |-> "list", value |-> users]
                 ELSE IF hits = {}
                 THEN [status |-> "ok", kind |-> "undefined", value |-> <<>>]
                 ELSE [status |-> "ok", kind |-> "entry",
                       value |-> <<users[CHOOSE i \in hits : \A j \in hits : i <= j]>>]

RoleNames == {UsersBase[i].key : i \in 1..Len(UsersBase)}

InitUsers ==
    /\ assets = <<>>
    /\ data = <<>>
    /\ disk = <<>>
    /\ abiState = EmptyObj
    /\ chain = NoChain
    /\ \E n \in 1..Len(networks), u \in BOOLEAN, user \in RoleNames \cup {"", "nobody"} :
         call = [op |-> "input",
                 args |-> [network |-> networks[n], useOvm |-> u, user |-> user]]
    /\ result = NoResult

CallGetUsers ==
    /\ call.op = "input"
    /\ call' = [op |-> "getUsers", args |-> call.args]
    /\ result' = getUsers(call.args)
    /\ UNCHANGED <<assets, data, disk, abiState, chain>>

NextUsers == CallGetUsers

SpecUsers == InitUsers /\ [][NextUsers]_vars

\* the address the role is to have on the network: the override of the
\* network when there is one, the base value otherwise
RoleAddress(network, role) ==
    LET over == IF HasKey(UsersOverrides, network)
                THEN Lookup(UsersOverrides, network) ELSE <<>>
    IN  IF HasKey(over, role) THEN Lookup(over, role) ELSE Lookup(UsersBase, role)

(* C13: for every network of the selector enum, getUsers returns the six  *)
(* named roles, each with the network's override as address when there   *)
(* is one and the base value otherwise; with a user given it returns the  *)
(* one entry of that name.                                                *)
C13_UsersOfEveryNetwork ==
    (call.op = "getUsers" /\ ~call.args.useOvm) =>
        /\ result.status = "ok"
        /\ call.args.user = "" =>
             /\ result.kind = "list"
             /\ {result.value[i].name : i \in 1..Len(result.value)} = RoleNames
             /\ Len(result.value) = Cardinality(RoleNames)
             /\ \A i \in 1..Len(result.value) :
                  result.value[i].address =
                      RoleAddress(call.args.network, result.value[i].name)
        /\ call.args.user \in RoleNames =>
             /\ result.kind = "entry"
             /\ result.value[1].name = call.args.user
             /\ result.value[1].address = RoleAddress(call.args.network, call.args.user)

-----------------------------------------------------------------------------
(* Market lists *)

MaxMarketList == 2

zETH == <<"z", "E", "T", "H">>
zLINK == <<"z", "L", "I", "N", "K">>

\* markets with a legacy asset key, with a plain one, with a key that only
\* looks legacy, and with a field that the registry entry has too
MarketRecords ==
    { [asset |-> zBTC, marketKey |-> "zBTC"],
      [asset |-> zETH, marketKey |-> "zETH", description |-> "Ether market"],
      [asset |-> zLINK, marketKey |-> "zLINK"],
      [asset |-> AVAX, marketKey |-> "zAVAX"],
      [asset |-> zDEFI, marketKey |-> "zDEFI"],
      [asset |-> BTC, marketKey |-> "BTC"] }

MarketTables == SeqsUpTo(MarketRecords, MaxMarketList)

InitMarkets ==
    \E markets \in MarketTables, feeds \in TokenFeeds :
        InitWith([n \in {MAINNET} |-> Bundle(MainDeployment, feeds, TokenSynths, markets, markets)],
                 {}, {})

NextMarkets ==
    \/ CallGetFeeds(MainnetArgs)
    \/ CallGetFuturesMarkets(MainnetArgs)
    \/ CallGetPerpsMarkets(MainnetArgs)

SpecMarkets == InitMarkets /\ [][NextMarkets]_vars

\* the output is the input list, market by market, each joined with the
\* registry entry under its asset, less the first character when the asset
\* is one of `legacy`, the market's fields winning
JoinedUnder(out, raw, legacy) ==
    /\ Len(out) = Len(raw)
    /\ \A i \in 1..Len(raw) :
         LET key == IF raw[i].asset \in legacy THEN Tail(raw[i].asset) ELSE raw[i].asset
             entry == IF key \in DOMAIN assets THEN assets[key] ELSE EmptyObj
         IN  /\ DOMAIN out[i] = (DOMAIN entry) \cup (DOMAIN raw[i])
             /\ \A k \in DOMAIN raw[i] : out[i][k] = raw[i][k]
             /\ \A k \in (DOMAIN entry) \ (DOMAIN raw[i]) : out[i][k] = entry[k]

-----------------------------------------------------------------------------
(* Deployments with perps targets *)

MaxTargets == 3

SrcHelper == <<"H", "e", "l", "p", "e", "r">>
SrcGone == <<"G", "o", "n", "e">>

FnHelp == [type |-> "function", name |-> <<"h", "e", "l", "p">>, inputs |-> <<>>]

PerpsSources ==
    << [key |-> SrcMarket, value |-> [abi |-> <<Constructor, Fallback, FnClose>>]],
       [key |-> SrcViews, value |-> [abi |-> <<Fallback, FnClose, FnBurn>>]],
       [key |-> SrcHelper, value |-> [abi |-> <<FnHelp>>]] >>

\* target names of every class the scan tells apart; SrcGone is the source
\* of a target whose source is not among the sources
PerpsTargetRecs ==
    { TargetRec(ProxySynthetix, AddrA, SrcHelper),
      TargetRec(proxyPrefix \o BTC, AddrA, SrcHelper),
      TargetRec(proxyPrefix \o ETH, AddrB, SrcHelper),
      TargetRec(marketPrefix \o BTC, AddrC, SrcMarket),
      TargetRec(marketPrefix \o <<"V", "i", "e", "w", "s">> \o BTC, AddrC, SrcViews),
      TargetRec(marketPrefix \o <<"L", "i", "q", "u", "i", "d", "a", "t", "e">> \o ETH,
                AddrC, SrcViews),
      TargetRec(marketPrefix \o ETH, AddrC, SrcGone),
      TargetRec(PerpsV2 \o <<"O", "t", "h", "e", "r">>, AddrC, SrcHelper),
      TargetRec(marketPrefix \o <<"S", "e", "t", "t", "i", "n", "g", "s">>, AddrC, SrcGone),
      TargetRec(marketPrefix \o <<"D", "a", "t", "a">>, AddrC, SrcHelper),
      TargetRec(marketPrefix \o <<"S", "t", "a", "t", "e">> \o BTC, AddrC, SrcHelper),
      TargetRec(PerpsV2 \o <<"D", "e", "l", "a", "y", "e", "d", "O", "r", "d", "e", "r">> \o BTC,
                AddrC, SrcHelper),
      TargetRec(PerpsV2 \o <<"O", "f", "f", "c", "h", "a", "i", "n", "D", "e", "l", "a", "y",
                             "e", "d", "O", "r", "d", "e", "r">> \o BTC, AddrC, SrcHelper) }

PerpsTargetLists == InjSeqs(PerpsTargetRecs, MaxTargets)

InitPerps ==
    \E targets \in PerpsTargetLists :
        InitWith([n \in {MAINNET} |->
                     Bundle([targets |-> targets, sources |-> PerpsSources],
                            HznFeeds, TokenSynths, <<>>, <<>>)],
                 {}, {})

NextPerps == Fresh /\ CallGetPerpsV2ProxiedMarkets(MainnetArgs)

SpecPerps == InitPerps /\ [][NextPerps]_vars

PerpsCall == call.op = "getPerpsV2ProxiedMarkets"

PerpsTargets == data[MAINNET].deployment.targets

\* the names that are to contribute nothing
Excluded(target) ==
    \/ ~StartsWith(target, <<"P", "e", "r", "p", "s", "V", "2">>)
    \/ target \in { PerpsV2 \o <<"M", "a", "r", "k", "e", "t", "S", "e", "t", "t", "i", "n", "g", "s">>,
                    PerpsV2 \o <<"M", "a", "r", "k", "e", "t", "D", "a", "t", "a">>,
                    PerpsV2 \o <<"E", "x", "c", "h", "a", "n", "g", "e", "R", "a", "t", "e">> }
    \/ \E p \in { PerpsV2 \o <<"M", "a", "r", "k", "e", "t", "S", "t", "a", "t", "e">>,
                  PerpsV2 \o <<"D", "e", "l", "a", "y", "e", "d", "O", "r", "d", "e", "r">>,
                  PerpsV2 \o <<"O", "f", "f", "c", "h", "a", "i", "n", "D", "e", "l", "a", "y",
                               "e", "d", "O", "r", "d", "e", "r">> } :
          StartsWith(target, p)

Included == SelectSeq(PerpsTargets, LAMBDA t : ~Excluded(t.key))

(* C15: a target whose name does not start with PerpsV2, is               *)
(* PerpsV2MarketSettings, PerpsV2MarketData or PerpsV2ExchangeRate, or    *)
(* starts with PerpsV2MarketState, PerpsV2DelayedOrder or                 *)
(* PerpsV2OffchainDelayedOrder contributes nothing: the result of         *)
(* getPerpsV2ProxiedMarkets is the result of the scan of the other        *)
(* targets alone, and it holds no address and no ABI fragment of an       *)
(* excluded target's source.                                              *)
C15_ExcludedContributeNothing ==
    PerpsCall =>
        /\ result.status = ScanTargets(call.args, Included, 1, EmptyObj).status
        /\ result.value = ScanTargets(call.args, Included, 1, EmptyObj).value
        /\ (result.status = "ok" /\ Included = <<>>) => result.value = EmptyObj
        /\ result.status = "ok" =>
             \A m \in DOMAIN result.value :
                \A j \in 1..Len(result.value[m].abi) : result.value[m].abi[j] # FnHelp

\* three targets, two of them excluded (a market state, which starts with
\* the market prefix, and a legacy order contract), one market out
C15_Witness ==
    /\ PerpsCall
    /\ result.status = "ok"
    /\ Len(PerpsTargets) = 3
    /\ Len(Included) = 1
    /\ \E i \in 1..3 : StartsWith(PerpsTargets[i].key, PerpsV2MarketState)
    /\ \E i \in 1..3 : StartsWith(PerpsTargets[i].key,
                                  PerpsV2 \o <<"D", "e", "l", "a", "y", "e", "d">>)
    /\ DOMAIN result.value = {BTC}
    /\ result.value[BTC].abi = <<Fallback, FnClose>>

-----------------------------------------------------------------------------
\* the ordered list of long component prefixes, and the generic one
LongPrefixes ==
    << PerpsV2 \o <<"M", "a", "r", "k", "e", "t", "V", "i", "e", "w", "s">>,
       PerpsV2 \o <<"D", "e", "l", "a", "y", "e", "d", "I", "n", "t", "e", "n", "t">>,
       PerpsV2 \o <<"D", "e", "l", "a", "y", "e", "d", "E", "x", "e", "c", "u", "t", "i", "o", "n">>,
       PerpsV2 \o <<"M", "a", "r", "k", "e", "t", "L", "i", "q", "u", "i", "d", "a", "t", "e">> >>

GenericPrefix == PerpsV2 \o <<"M", "a", "r", "k", "e", "t">>

ProxyPrefix == PerpsV2 \o <<"P", "r", "o", "x", "y">>

IsProxy(target) == StartsWith(target, ProxyPrefix)

\* the prefix that assigns a component to its market: the first of the list
\* that matches, else the generic one, else none
AssigningPrefix(target) ==
    LET hits == {i \in 1..Len(LongPrefixes) : StartsWith(target, LongPrefixes[i])}
    IN  IF hits # {} THEN LongPrefixes[CHOOSE i \in hits : \A j \in hits : i <= j]
        ELSE IF StartsWith(target, GenericPrefix) THEN GenericPrefix
        ELSE <<>>

IsComponent(target) == ~IsProxy(target) /\ AssigningPrefix(target) # <<>>

MarketOf(target) ==
    IF IsProxy(target) THEN SubSeq(target, Len(ProxyPrefix) + 1, Len(target))
    ELSE SubSeq(target, Len(AssigningPrefix(target)) + 1, Len(target))

SourceAbi(t) == Lookup(data[MAINNET].deployment.sources, t.value.source).abi

(* C16: of the non-excluded targets, PerpsV2Proxy<M> sets the address of  *)
(* market M; any other is assigned to market M by the first matching      *)
(* prefix of PerpsV2MarketViews, PerpsV2DelayedIntent,                    *)
(* PerpsV2DelayedExecution, PerpsV2MarketLiquidate, else by PerpsV2Market, *)
(* and its source ABI is merged into the abi of M; a target that matches  *)
(* none is ignored; the keys of the output are exactly these markets.     *)
C16_MarketGrouping ==
    (PerpsCall /\ result.status = "ok") =>
        LET out == result.value
            counted == {i \in 1..Len(Included) :
                           IsProxy(Included[i].key) \/ IsComponent(Included[i].key)}
        IN  /\ DOMAIN out = {MarketOf(Included[i].key) : i \in counted}
            /\ \A i \in counted :
                 LET t == Included[i]
                     m == MarketOf(t.key)
                 IN  IF IsProxy(t.key)
                     THEN out[m].address = t.value.address
                     ELSE \A j \in 1..Len(SourceAbi(t)) :
                             SourceAbi(t)[j].type # "constructor" =>
                                \E k \in 1..Len(out[m].abi) : out[m].abi[k] = SourceAbi(t)[j]
            /\ \A m \in DOMAIN out :
                 /\ Has(out[m], "address") =>
                       \E i \in counted : IsProxy(Included[i].key) /\ MarketOf(Included[i].key) = m
                 /\ \A k \in 1..Len(out[m].abi) :
                       \E i \in counted :
                          /\ IsComponent(Included[i].key)
                          /\ MarketOf(Included[i].key) = m
                          /\ \E j \in 1..Len(SourceAbi(Included[i])) :
                                SourceAbi(Included[i])[j] = out[m].abi[k]

\* PerpsV2ProxyBTC, PerpsV2MarketViewsBTC and PerpsV2MarketSettings give
\* the one market BTC with the proxy's address and the views' fragments
C16_Witness ==
    /\ PerpsCall
    /\ result.status = "ok"
    /\ {PerpsTargets[i].key : i \in 1..Len(PerpsTargets)} =
           { ProxyPrefix \o BTC, LongPrefixes[1] \o BTC,
             GenericPrefix \o <<"S", "e", "t", "t", "i", "n", "g", "s">> }
    /\ DOMAIN result.value = {BTC}
    /\ result.value[BTC].address = AddrA
    /\ result.value[BTC].abi = <<Fallback, FnClose, FnBurn>>

-----------------------------------------------------------------------------
\* the name of a fragment, <<>> for a fragment without one
FragmentName(f) == IF Has(f, "name") THEN f.name ELSE <<>>

SameTypeAndName(f, g) == f.type = g.type /\ FragmentName(f) = FragmentName(g)

(* C17: in every market of the output of getPerpsV2ProxiedMarkets the abi *)
(* holds no constructor fragment and no two fragments of the same type    *)
(* and name, fragments without a name (fallback, receive) included.       *)
C17_AbiUnique ==
    (PerpsCall /\ result.status = "ok") =>
        \A m \in DOMAIN result.value :
            LET abi == result.value[m].abi
            IN  /\ \A j \in 1..Len(abi) : abi[j].type # "constructor"
                /\ \A j, k \in 1..Len(abi) :
                     j # k => ~SameTypeAndName(abi[j], abi[k])


-----------------------------------------------------------------------------
(* Identifiers as bytes32 *)

MaxFill == 32

Fillers == {Repeat("a", n) : n \in 0..MaxFill}

KeyPrefixes == {<<>>, <<"1">>, ZBTC, zUSD}

\* ASCII strings without NUL, of 1 character up to a few more than 32
Bytes32Keys == {p \o f : p \in KeyPrefixes, f \in Fillers} \ {<<>>}

InitBytes32 ==
    /\ assets = <<>>
    /\ data = <<>>
    /\ disk = <<>>
    /\ abiState = EmptyObj
    /\ chain = NoChain
    /\ \E key \in Bytes32Keys : call = [op |-> "input", args |-> [key |-> key]]
    /\ result = NoResult

CallToBytes32 ==
    /\ call.op = "input"
    /\ call' = [op |-> "toBytes32", args |-> call.args]
    /\ result' = Returned(toBytes32(call.args.key))
    /\ UNCHANGED <<assets, data, disk, abiState, chain>>

\* fromBytes32 on what toBytes32 returned
CallFromBytes32 ==
    /\ call.op = "toBytes32"
    /\ call' = [op |-> "fromBytes32", args |-> call.args]
    /\ result' = fromBytes32(result.value)
    /\ UNCHANGED <<assets, data, disk, abiState, chain>>

NextBytes32 ==
    \/ CallToBytes32
    \/ CallFromBytes32

SpecBytes32 == InitBytes32 /\ [][NextBytes32]_vars

ShortKey == call.op # "none" /\ Len(call.args.key) \in 1..32

\* the bytes of key in hexadecimal, then zero bytes up to 32 bytes
PaddedBytes(key) ==
    Flatten([i \in 1..32 |-> IF i <= Len(key) THEN HexOfChar(key[i]) ELSE <<"0", "0">>])

(* C20: for every ASCII string s of 1 to 32 characters without NUL,        *)
(* toBytes32(s) is 0x followed by exactly 64 hexadecimal digits, the bytes *)
(* of s right-padded with zero bytes, and fromBytes32(toBytes32(s)) is s.  *)
C20_Bytes32RoundTrip ==
    /\ (call.op = "toBytes32" /\ ShortKey) =>
          /\ result.status = "ok"
          /\ Len(result.value) = 2 + 64
          /\ result.value = ZeroX \o PaddedBytes(call.args.key)
    /\ (call.op = "fromBytes32" /\ ShortKey) =>
          /\ result.status = "ok"
          /\ result.value = call.args.key


-----------------------------------------------------------------------------
(* Decoding with enhanceDecode: one deployment whose source declares      *)
(* functions with bytes32, integer, array and struct inputs, and call     *)
(* data for them.                                                         *)

\* most zeros a drawn integer ends with
MaxZeros == 20

TypeUint8 == <<"u", "i", "n", "t", "8">>
TypeUint64 == <<"u", "i", "n", "t", "6", "4">>
TypeInt256 == <<"i", "n", "t", "2", "5", "6">>
TypeUint256Array == TypeUint256 \o <<"[", "]">>
TypeUint80 == <<"u", "i", "n", "t", "8", "0">>
TypeBool == <<"b", "o", "o", "l">>
TypeString == <<"s", "t", "r", "i", "n", "g">>
TypeBytes == <<"b", "y", "t", "e", "s">>

SrcRates == <<"R", "a", "t", "e", "s">>

FnSetRate ==
    [type |-> "function", name |-> <<"s", "e", "t", "R", "a", "t", "e">>,
     inputs |-> <<[name |-> "currencyKey", type |-> TypeBytes32],
                  [name |-> "rate", type |-> TypeUint256]>>]
FnSetDelta ==
    [type |-> "function", name |-> <<"s", "e", "t", "D", "e", "l", "t", "a">>,
     inputs |-> <<[name |-> "delta", type |-> TypeInt256]>>]
FnSetLevel ==
    [type |-> "function", name |-> <<"s", "e", "t", "L", "e", "v", "e", "l">>,
     inputs |-> <<[name |-> "level", type |-> TypeUint8]>>]
FnSetTime ==
    [type |-> "function", name |-> <<"s", "e", "t", "T", "i", "m", "e">>,
     inputs |-> <<[name |-> "time", type |-> TypeUint64]>>]
FnSetRates ==
    [type |-> "function", name |-> <<"s", "e", "t", "R", "a", "t", "e", "s">>,
     inputs |-> <<[name |-> "currencyKeys", type |-> TypeBytes32Array],
                  [name |-> "rates", type |-> TypeUint256Array]>>]
FnSubmit ==
    [type |-> "function", name |-> <<"s", "u", "b", "m", "i", "t">>,
     inputs |-> <<[name |-> "currencyKey", type |-> TypeBytes32],
                  [name |-> "order", type |-> TypeTuple]>>]

FnRegister ==
    [type |-> "function", name |-> <<"r", "e", "g", "i", "s", "t", "e", "r">>,
     inputs |-> <<[name |-> "account", type |-> TypeAddress],
                  [name |-> "active", type |-> TypeBool],
                  [name |-> "memo", type |-> TypeString],
                  [name |-> "payload", type |-> TypeBytes],
                  [name |-> "nonce", type |-> TypeUint80]>>]

EnhanceDeployment ==
    [targets |-> << TargetRec(ProxySynthetix, AddrA, SrcRates) >>,
     sources |->
        << [key |-> SrcRates,
            value |-> [abi |-> <<Constructor, FnSetRate, FnSetDelta, FnSetLevel, FnSetTime,
                                 FnSetRates, FnSubmit, FnRegister>>]] >>]

Leads ==
    { <<"1">>, <<"1", "2">>, <<"9", "9", "9">>, <<"1", "2", "3", "4", "5", "6", "7">> }

\* integers as abiDecoder writes them: decimal, no leading zero
Naturals256 == {<<"0">>} \cup {lead \o Repeat("0", n) : lead \in Leads, n \in 0..MaxZeros}

Integers256 == Naturals256 \cup {<<"-">> \o v : v \in Naturals256 \ {<<"0">>}}

Keys32 == {toBytes32(zUSD), toBytes32(ZBTC)}

\* the fields a decoded struct may hold: a bytes32, an address, an integer,
\* a text, a boolean, an array and a nested struct
FieldValues ==
    { Str(toBytes32(ZBTC)), Str(ToLowerCase(AddrA)), Str(<<"1", "2", "3", "4", "5", "6", "7">>),
      Str(zUSD), Bool(TRUE), Arr(<<Str(<<"1">>)>>), Tuple(<<>>) }

Struct(first, second) ==
    Tuple(<< [key |-> <<"0">>, value |-> first],
             [key |-> <<"1">>, value |-> second],
             [key |-> <<"m", "a", "r", "k", "e", "t">>, value |-> first],
             [key |-> <<"e", "x", "t", "r", "a">>, value |-> second] >>)

EnhanceData ==
    {[sig |-> Signature(FnSetRate), args |-> <<Str(k), Str(v)>>] :
        k \in Keys32, v \in Naturals256}
    \cup {[sig |-> Signature(FnSetDelta), args |-> <<Str(v)>>] : v \in Integers256}
    \cup {[sig |-> Signature(FnSetLevel), args |-> <<Str(v)>>] :
            v \in {<<"0">>, <<"7">>, <<"2", "5", "5">>}}
    \cup {[sig |-> Signature(FnSetTime), args |-> <<Str(lead \o Repeat("0", 3))>>] :
            lead \in Leads}
    \cup {[sig |-> Signature(FnSetRates),
           args |-> <<Arr([i \in 1..n |-> Str(toBytes32(zUSD))]),
                      Arr([i \in 1..n |-> Str(v)])>>] :
            n \in 0..2, v \in {<<"1">>, <<"1", "0", "0", "0">>}}
    \cup {[sig |-> Signature(FnSubmit), args |-> <<Str(k), Struct(first, second)>>] :
            k \in Keys32, first \in FieldValues, second \in FieldValues}
    \cup {[sig |-> Signature(FnRegister),
           args |-> <<Str(AddrA), Bool(active), Str(zUSD), Str(ZeroX \o <<"6", "1">>),
                      Str(lead)>>] :
            active \in BOOLEAN, lead \in Leads}
    \cup {[sig |-> Signature(FnBurn), args |-> <<Str(<<"5">>)>>]}

InitEnhance ==
    InitWith([n \in {MAINNET} |->
                 Bundle(EnhanceDeployment, HznFeeds, TokenSynths, <<>>, <<>>)],
             {}, {})

NextEnhance == Fresh /\ CallDecode(MainnetArgs, EnhanceData, {<<>>}, {FALSE}, {TRUE})

SpecEnhance == InitEnhance /\ [][NextEnhance]_vars


EnhanceCall == call.op = "decode" /\ call.args.enhanceDecode

\* what decodeMethod made of the call data, before any enhancement
Decoded == decodeMethod(abiState, call.args.data)

Decodable == Decoded.status = "ok" /\ Decoded.value.decoded

PlainParams == Decoded.value.method.params

IsIntegerType(type) ==
    \/ StartsWith(type, <<"u", "i", "n", "t">>)
    \/ StartsWith(type, TypeInt)

NamedFields(value) == SelectSeq(value.a, LAMBDA e : IsNaN(e.key))

(* C18: with enhanceDecode set, decode returns for every decoded parameter *)
(* list; an integer-typed parameter whose value is an array and a tuple    *)
(* field that is no string carry the sentinel, and a bytes32 parameter is  *)
(* annotated with its text.                                                *)
C18_EnhanceNeverAborts ==
    (EnhanceCall /\ Decodable) =>
        /\ result.status = "ok"
        /\ \A i \in 1..Len(PlainParams) :
             LET p == PlainParams[i]
                 out == result.value.method.params[i]
             IN  /\ (IsIntegerType(p.type) /\ p.value.t = "arr") =>
                        out.enhanced = Sentinel
                 /\ p.type = TypeTuple =>
                        \A j \in 1..Len(NamedFields(p.value)) :
                            LET field == NamedFields(p.value)[j]
                            IN  field.value.t # "str" =>
                                    Lookup(out.value.a, field.key).enhanced = Sentinel
                 /\ p.type = TypeBytes32 =>
                        out.enhanced.ascii =
                            SelectSeq(hexToAscii(p.value.s).value, LAMBDA c : c # NUL)

RECURSIVE GroupFromRight(_)
GroupFromRight(digits) ==
    IF Len(digits) <= 3 THEN digits
    ELSE GroupFromRight(SubSeq(digits, 1, Len(digits) - 3))
            \o <<",">> \o SubSeq(digits, Len(digits) - 2, Len(digits))

\* a comma every 3 digits from the right, none after the sign
Rendered(value) == (IF value.neg THEN <<"-">> ELSE <<>>) \o GroupFromRight(value.mag)

(* C19: with enhanceDecode set, every integer-typed parameter with value v *)
(* is annotated with bp = v div 10^14, decimal = v div 10^18 and           *)
(* number = v, each with a comma every 3 digits counted from the right and *)
(* none directly after a leading minus sign.                               *)
C19_IntegerAnnotations ==
    (EnhanceCall /\ Decodable /\ result.status = "ok") =>
        \A i \in 1..Len(PlainParams) :
            LET p == PlainParams[i]
                out == result.value.method.params[i]
                v == toBN(p.value).value
            IN  (IsIntegerType(p.type) /\ p.value.t = "str") =>
                    /\ Has(out, "enhanced")
                    /\ out.enhanced = [bp |-> Rendered(DivPow10(v, 14)),
                                       decimal |-> Rendered(DivPow10(v, 18)),
                                       number |-> Rendered(v)]


DecodeCall == call.op = "decode"

\* the targets decode reads, and whether the method decodes without raising
DecodeTargets == getTarget(DecodeArgs(call.args))

MethodDecodes == decodeMethod(abiState, call.args.data).status = "ok"

SameIgnoringCase(a, b) ==
    /\ Len(a) = Len(b)
    /\ \A i \in 1..Len(a) : LowerChar(a[i]) = LowerChar(b[i])

NamesAt(targets, target) ==
    {targets[i].value.name : i \in {j \in 1..Len(targets) :
                                      SameIgnoringCase(targets[j].value.address, target)}}

(* C21: decode with a target address returns as contract the name of a     *)
(* deployment target whose address equals it ignoring letter case, and     *)
(* raises when no target has that address; without a target the contract   *)
(* is absent.                                                              *)
C21_ContractOfTarget ==
    (DecodeCall /\ DecodeTargets.status = "ok") =>
        LET names == NamesAt(DecodeTargets.value, call.args.target)
        IN  /\ (call.args.target # <<>> /\ names = {}) => result.status = "throw"
            /\ (call.args.target # <<>> /\ names # {} /\ MethodDecodes
                  /\ ~call.args.enhanceDecode) =>
                  result.status = "ok" /\ result.value.contract \in names
            /\ (call.args.target = <<>> /\ result.status = "ok") =>
                  result.value.contract = <<>>

C21_Witness ==
    /\ DecodeCall
    /\ call.args.target = ToLowerCase(AddrA)
    /\ call.args.target # AddrA
    /\ result.status = "ok"
    /\ result.value.contract \in {ProxySynthetix, Proxy \o zDEFI}


-----------------------------------------------------------------------------
(* Versions documents: up to MaxReleases releases, each with the contracts *)
(* it deployed.                                                           *)

MaxReleases == 3

ReleaseTags == <<"v1", "v2", "v3", "v4">>

ReleaseAddresses == <<AddrA, AddrB, AddrC, AddrA>>

\* the contracts of one release: any of three names, in either order
ContractLists ==
    UNION {InjSeqs({SrcToken, SrcMarket, SrcViews}, n) : n \in 0..2}

Release(i, names) ==
    [key |-> ReleaseTags[i],
     value |-> [tag |-> ReleaseTags[i], release |-> ReleaseTags[i], date |-> ReleaseTags[i],
                commit |-> ReleaseTags[i], block |-> ReleaseTags[i],
                contracts |-> [j \in 1..Len(names) |->
                                  [key |-> names[j],
                                   value |-> [address |-> ReleaseAddresses[i]]]]]]

VersionsDocuments ==
    UNION {{[i \in 1..n |-> Release(i, lists[i])] : lists \in [1..n -> ContractLists]} :
              n \in 0..MaxReleases}

InitVersions ==
    \E versions \in VersionsDocuments :
        InitWith([n \in {MAINNET} |-> [MainBundle EXCEPT !.versions = versions]], {}, {})

NextVersions == Fresh /\ CallGetVersions(MainnetArgs)

SpecVersions == InitVersions /\ [][NextVersions]_vars

VersionsCall == call.op = "getVersions" /\ result.status = "ok"

VersionsDocument == data[MAINNET].versions

Contains(release, contract) == HasKey(release.value.contracts, contract)

ReleasesWith(contract) == SelectSeq(VersionsDocument, LAMBDA r : Contains(r, contract))

(* C22: with byContract the keys of getVersions are exactly the contracts  *)
(* of some release; a contract's sequence has one entry per release that   *)
(* contains it, in the order of the releases, each the contract's entry    *)
(* with the tag, release, date, commit and block of its release. Without   *)
(* byContract the release mapping is returned as it is.                    *)
C22_VersionsByContract ==
    VersionsCall =>
        IF ~call.args.byContract THEN result.value = VersionsDocument
        ELSE /\ DOMAIN result.value =
                  {c \in {SrcToken, SrcMarket, SrcViews} :
                      \E i \in 1..Len(VersionsDocument) : Contains(VersionsDocument[i], c)}
             /\ \A c \in DOMAIN result.value :
                  /\ Len(result.value[c]) = Len(ReleasesWith(c))
                  /\ \A k \in 1..Len(ReleasesWith(c)) :
                       LET release == ReleasesWith(c)[k].value
                           entry == result.value[c][k]
                       IN  /\ entry.address = Lookup(release.contracts, c).address
                           /\ \A f \in {"tag", "release", "date", "commit", "block"} :
                                  entry[f] = release[f]

C22_Witness ==
    /\ VersionsCall
    /\ call.args.byContract
    /\ Len(VersionsDocument) = 3
    /\ ~Contains(VersionsDocument[2], SrcToken)
    /\ SrcToken \in DOMAIN result.value
    /\ Len(result.value[SrcToken]) = 2
    /\ result.value[SrcToken][2].tag = "v3"


-----------------------------------------------------------------------------
(* SystemStatus: the contract the tests of                                *)
(* src/test/contracts/SystemStatus.js deploy and call.  `chain` holds the *)
(* number of transactions mined and the storage of the contract.          *)

\* transactions mined in one behaviour
MaxTxs == 2

SUSPENSION_REASON_UPGRADE == 1

SECTION_SYSTEM == "System"
SECTION_ISSUANCE == "Issuance"
SECTION_EXCHANGE == "Exchange"
SECTION_ZASSET == "Zasset"

Sections == {SECTION_SYSTEM, SECTION_ISSUANCE, SECTION_EXCHANGE, SECTION_ZASSET}

\* const [, owner, account1, account2] = accounts
Accounts == {"owner", "account1", "account2"}

\* the currency keys the calls name
SynthKeys == {zBTC, zETH}

\* the reasons the calls give
Reasons == {0, SUSPENSION_REASON_UPGRADE, 3}

NotSuspended == [suspended |-> FALSE, reason |-> 0]

\* SystemStatus.new(owner): the owner may suspend and resume every section,
\* nothing is suspended
SystemStatusNew(owner) ==
    [owner |-> owner,
     accessControl |->
        [s \in Sections |->
            [a \in Accounts |-> [canSuspend |-> a = owner, canResume |-> a = owner]]],
     suspension |-> [s \in Sections \ {SECTION_ZASSET} |-> NotSuspended],
     synthSuspension |-> [k \in SynthKeys |-> NotSuspended]]

\* a transaction: the event it emits and the storage it leaves, or the
\* reason it reverts with, the storage untouched
Emitted(event, args, status) ==
    [result |-> Returned([event |-> event, args |-> args]), status |-> status]

Reverted(reason, status) == [result |-> Threw(reason), status |-> status]

Restricted == "Restricted to access control list"

\* the record of a section; the Zasset section has one record per key
RecordOf(status, section, key) ==
    IF section = SECTION_ZASSET THEN status.synthSuspension[key]
    ELSE status.suspension[section]

WithRecord(status, section, key, record) ==
    IF section = SECTION_ZASSET
    THEN [status EXCEPT !.synthSuspension[key] = record]
    ELSE [status EXCEPT !.suspension[section] = record]

\* SystemSuspended(reason), ..., SynthSuspended(currencyKey, reason)
EventOf(section, suffix, key, reason) ==
    IF section = SECTION_ZASSET
    THEN [name |-> "Synth" \o suffix, args |-> <<key, reason>>]
    ELSE [name |-> section \o suffix, args |-> <<reason>>]

Suspend_anyRight(status, from, section, key, reason) ==
    IF ~(\E s \in Sections : status.accessControl[s][from].canSuspend)
    THEN Reverted(Restricted, status)
    ELSE LET e == EventOf(section, "Suspended", key, reason)
         IN  Emitted(e.name, e.args,
                     WithRecord(status, section, key, [suspended |-> TRUE, reason |-> reason]))

Suspend_keepsReason(status, from, section, key, reason) ==
    IF ~status.accessControl[section][from].canSuspend
    THEN Reverted(Restricted, status)
    ELSE LET e == EventOf(section, "Suspended", key, reason)
             old == RecordOf(status, section, key)
         IN  Emitted(e.name, e.args,
                     WithRecord(status, section, key,
                                [suspended |-> TRUE,
                                 reason |-> IF old.suspended THEN old.reason ELSE reason]))

\* suspend<Section>: restricted to the accounts that may suspend the
\* section; the record becomes (true, reason)
Suspend(status, from, section, key, reason) ==
    IF ~status.accessControl[section][from].canSuspend
    THEN Reverted(Restricted, status)
    ELSE LET e == EventOf(section, "Suspended", key, reason)
         IN  Emitted(e.name, e.args,
                     WithRecord(status, section, key, [suspended |-> TRUE, reason |-> reason]))

\* resume<Section>: restricted to the accounts that may resume the section;
\* the event carries the reason stored, the record becomes (false, 0)
Resume(status, from, section, key) ==
    IF ~status.accessControl[section][from].canResume
    THEN Reverted(Restricted, status)
    ELSE LET e == EventOf(section, "Resumed", key, RecordOf(status, section, key).reason)
         IN  Emitted(e.name, e.args, WithRecord(status, section, key, NotSuspended))

suspendSystem(status, from, reason) == Suspend(status, from, SECTION_SYSTEM, <<>>, reason)
resumeSystem(status, from) == Resume(status, from, SECTION_SYSTEM, <<>>)
suspendIssuance(status, from, reason) == Suspend(status, from, SECTION_ISSUANCE, <<>>, reason)
resumeIssuance(status, from) == Resume(status, from, SECTION_ISSUANCE, <<>>)
suspendExchange(status, from, reason) == Suspend(status, from, SECTION_EXCHANGE, <<>>, reason)
resumeExchange(status, from) == Resume(status, from, SECTION_EXCHANGE, <<>>)
suspendSynth(status, from, currencyKey, reason) ==
    Suspend(status, from, SECTION_ZASSET, currencyKey, reason)
resumeSynth(status, from, currencyKey) == Resume(status, from, SECTION_ZASSET, currencyKey)

updateAccessControl_anyHolder(status, from, section, account, canSuspend, canResume) ==
    IF from # status.owner /\ ~status.accessControl[section][from].canSuspend
    THEN Reverted("Only the contract owner may perform this action", status)
    ELSE Emitted("AccessControlUpdated", <<section, account, canSuspend, canResume>>,
                 [status EXCEPT !.accessControl[section][account] =
                     [canSuspend |-> canSuspend, canResume |-> canResume]])

\* updateAccessControl: the owner alone; the account's rights on the section
\* become the pair given
updateAccessControl(status, from, section, account, canSuspend, canResume) ==
    IF from # status.owner
    THEN Reverted("Only the contract owner may perform this action", status)
    ELSE Emitted("AccessControlUpdated", <<section, account, canSuspend, canResume>>,
                 [status EXCEPT !.accessControl[section][account] =
                     [canSuspend |-> canSuspend, canResume |-> canResume]])

\* the views
isSystemUpgrading(status) ==
    /\ status.suspension[SECTION_SYSTEM].suspended
    /\ status.suspension[SECTION_SYSTEM].reason = SUSPENSION_REASON_UPGRADE

requireSystemActive_never(status) == Returned(TRUE)

requireSystemActive(status) ==
    IF ~status.suspension[SECTION_SYSTEM].suspended THEN Returned(TRUE)
    ELSE IF isSystemUpgrading(status)
    THEN Threw("Horizon is suspended, upgrade in progress... please stand by")
    ELSE Threw("Horizon is suspended. Operation prohibited")

requireIssuanceActive(status) ==
    IF requireSystemActive(status).status # "ok" THEN requireSystemActive(status)
    ELSE IF status.suspension[SECTION_ISSUANCE].suspended
    THEN Threw("Issuance is suspended. Operation prohibited")
    ELSE Returned(TRUE)

requireExchangeActive(status) ==
    IF requireSystemActive(status).status # "ok" THEN requireSystemActive(status)
    ELSE IF status.suspension[SECTION_EXCHANGE].suspended
    THEN Threw("Exchange is suspended. Operation prohibited")
    ELSE Returned(TRUE)

requireSynthActive(status, currencyKey) ==
    IF requireSystemActive(status).status # "ok" THEN requireSystemActive(status)
    ELSE IF status.synthSuspension[currencyKey].suspended
    THEN Threw("Zasset is suspended. Operation prohibited")
    ELSE Returned(TRUE)

requireSynthsActive(status, sourceCurrencyKey, destinationCurrencyKey) ==
    IF requireSystemActive(status).status # "ok" THEN requireSystemActive(status)
    ELSE IF \/ status.synthSuspension[sourceCurrencyKey].suspended
            \/ status.synthSuspension[destinationCurrencyKey].suspended
    THEN Threw("One or more zassets are suspended. Operation prohibited")
    ELSE Returned(TRUE)

InitStatus ==
    /\ assets = <<>>
    /\ data = <<>>
    /\ disk = <<>>
    /\ abiState = EmptyObj
    /\ chain = NoChain
    /\ call = NoCall
    /\ result = NoResult

Deploy ==
    /\ chain = NoChain
    /\ chain' = [block |-> 0, systemStatus |-> SystemStatusNew("owner")]
    /\ call' = [op |-> "new", args |-> [from |-> "owner"]]
    /\ result' = NoResult
    /\ UNCHANGED <<assets, data, disk, abiState>>

\* one transaction is mined, reverted or not
Mine(op, args, outcome) ==
    /\ call' = [op |-> op, args |-> args]
    /\ result' = outcome.result
    /\ chain' = [block |-> chain.block + 1, systemStatus |-> outcome.status]
    /\ UNCHANGED <<assets, data, disk, abiState>>

Deployed == chain # NoChain /\ chain.block < MaxTxs

SendSuspend ==
    /\ Deployed
    /\ \E from \in Accounts, reason \in Reasons :
        \/ Mine("suspendSystem", [from |-> from, section |-> SECTION_SYSTEM, key |-> <<>>,
                                  reason |-> reason],
                suspendSystem(chain.systemStatus, from, reason))
        \/ Mine("suspendIssuance", [from |-> from, section |-> SECTION_ISSUANCE, key |-> <<>>,
                                    reason |-> reason],
                suspendIssuance(chain.systemStatus, from, reason))
        \/ Mine("suspendExchange", [from |-> from, section |-> SECTION_EXCHANGE, key |-> <<>>,
                                    reason |-> reason],
                suspendExchange(chain.systemStatus, from, reason))
        \/ \E k \in SynthKeys :
              Mine("suspendSynth", [from |-> from, section |-> SECTION_ZASSET, key |-> k,
                                    reason |-> reason],
                   suspendSynth(chain.systemStatus, from, k, reason))

SendResume ==
    /\ Deployed
    /\ \E from \in Accounts :
        \/ Mine("resumeSystem", [from |-> from, section |-> SECTION_SYSTEM, key |-> <<>>],
                resumeSystem(chain.systemStatus, from))
        \/ Mine("resumeIssuance", [from |-> from, section |-> SECTION_ISSUANCE, key |-> <<>>],
                resumeIssuance(chain.systemStatus, from))
        \/ Mine("resumeExchange", [from |-> from, section |-> SECTION_EXCHANGE, key |-> <<>>],
                resumeExchange(chain.systemStatus, from))
        \/ \E k \in SynthKeys :
              Mine("resumeSynth", [from |-> from, section |-> SECTION_ZASSET, key |-> k],
                   resumeSynth(chain.systemStatus, from, k))

SendUpdateAccessControl ==
    /\ Deployed
    /\ \E from \in Accounts, section \in Sections, account \in Accounts,
          canSuspend \in BOOLEAN, canResume \in BOOLEAN :
        Mine("updateAccessControl",
             [from |-> from, section |-> section, account |-> account,
              canSuspend |-> canSuspend, canResume |-> canResume],
             updateAccessControl(chain.systemStatus, from, section, account,
                                 canSuspend, canResume))

NextStatus ==
    \/ Deploy
    \/ SendSuspend
    \/ SendResume
    \/ SendUpdateAccessControl

SpecStatus == InitStatus /\ [][NextStatus]_vars


SuspendOps == {"suspendSystem", "suspendIssuance", "suspendExchange", "suspendSynth"}

ResumeOps == {"resumeSystem", "resumeIssuance", "resumeExchange", "resumeSynth"}

\* the step is a transaction to the deployed contract
Transaction == chain # NoChain /\ chain' # chain

\* whether the sender of the transaction holds, before it, the right the
\* call needs
HoldsRight ==
    LET rights == chain.systemStatus.accessControl[call'.args.section][call'.args.from]
    IN  IF call'.op \in SuspendOps THEN rights.canSuspend ELSE rights.canResume

C23_Transaction ==
    (Transaction /\ call'.op \in SuspendOps \cup ResumeOps) =>
        /\ result'.status = "ok" <=> HoldsRight
        /\ ~HoldsRight =>
              /\ result'.value = "Restricted to access control list"
              /\ chain'.systemStatus = chain.systemStatus

C23_Construction ==
    (chain = NoChain /\ chain' # NoChain) =>
        \A s \in Sections, a \in Accounts :
            chain'.systemStatus.accessControl[s][a] =
                [canSuspend |-> a = "owner", canResume |-> a = "owner"]

(* C23: a suspend call succeeds only if its sender holds the suspend right *)
(* on the call's section, a resume call only if it holds the resume right; *)
(* after construction the owner holds both rights on all four sections and *)
(* every other account none; a call without the right reverts with         *)
(* 'Restricted to access control list' and changes no state.               *)
C23_SectionAuthorization == [][C23_Transaction /\ C23_Construction]_vars

C23_Witness ==
    /\ chain # NoChain
    /\ call.op = "resumeSystem"
    /\ call.args.from = "account1"
    /\ chain.systemStatus.accessControl[SECTION_SYSTEM]["account1"] =
          [canSuspend |-> TRUE, canResume |-> FALSE]
    /\ chain.systemStatus.suspension[SECTION_SYSTEM].suspended = FALSE
    /\ result.status = "throw"


C24_Update ==
    (Transaction /\ call'.op = "updateAccessControl") =>
        LET a == call'.args
            before == chain.systemStatus
            after == chain'.systemStatus
        IN  IF a.from # before.owner
            THEN result'.status = "throw" /\ after = before
            ELSE /\ result'.status = "ok"
                 /\ after.accessControl[a.section][a.account] =
                       [canSuspend |-> a.canSuspend, canResume |-> a.canResume]
                 /\ \A s \in Sections, b \in Accounts :
                       (s # a.section \/ b # a.account) =>
                           after.accessControl[s][b] = before.accessControl[s][b]

C24_OtherCalls ==
    (Transaction /\ (call'.op # "updateAccessControl" \/ call'.args.from # chain.systemStatus.owner)) =>
        chain'.systemStatus.accessControl = chain.systemStatus.accessControl

(* C24: updateAccessControl reverts for every caller but the owner, also   *)
(* for holders of suspend or resume rights, and no call by another account *)
(* changes any account's rights; the owner's call replaces the account's   *)
(* rights on the section by exactly the pair given, so (false, false)      *)
(* revokes a right granted before.                                         *)
C24_OnlyOwnerUpdates == [][C24_Update /\ C24_OtherCalls]_vars

C24_Witness ==
    /\ chain # NoChain
    /\ chain.block = 2
    /\ call.op = "updateAccessControl"
    /\ call.args = [from |-> "owner", section |-> SECTION_ZASSET, account |-> "owner",
                    canSuspend |-> FALSE, canResume |-> FALSE]
    /\ result.status = "ok"
    /\ chain.systemStatus.accessControl[SECTION_ZASSET]["owner"] =
          [canSuspend |-> FALSE, canResume |-> FALSE]


\* the records of the contract: the three sections and one per synth key
RecordIds == {<<s, <<>>>> : s \in Sections \ {SECTION_ZASSET}}
                \cup {<<SECTION_ZASSET, k>> : k \in SynthKeys}

RecordAt(status, id) ==
    IF id[1] = SECTION_ZASSET THEN status.synthSuspension[id[2]]
    ELSE status.suspension[id[1]]

OthersKept(id) ==
    \A other \in RecordIds \ {id} :
        RecordAt(chain'.systemStatus, other) = RecordAt(chain.systemStatus, other)

SuspendedEvent ==
    [suspendSystem |-> "SystemSuspended", suspendIssuance |-> "IssuanceSuspended",
     suspendExchange |-> "ExchangeSuspended", suspendSynth |-> "SynthSuspended"]

ResumedEvent ==
    [resumeSystem |-> "SystemResumed", resumeIssuance |-> "IssuanceResumed",
     resumeExchange |-> "ExchangeResumed", resumeSynth |-> "SynthResumed"]

C25_Suspend ==
    (Transaction /\ call'.op \in SuspendOps /\ result'.status = "ok") =>
        LET id == <<call'.args.section, call'.args.key>>
        IN  /\ RecordAt(chain'.systemStatus, id) =
                  [suspended |-> TRUE, reason |-> call'.args.reason]
            /\ OthersKept(id)
            /\ result'.value.event = SuspendedEvent[call'.op]
            /\ result'.value.args[Len(result'.value.args)] = call'.args.reason

C25_Resume ==
    (Transaction /\ call'.op \in ResumeOps /\ result'.status = "ok") =>
        LET id == <<call'.args.section, call'.args.key>>
        IN  /\ RecordAt(chain'.systemStatus, id) = [suspended |-> FALSE, reason |-> 0]
            /\ OthersKept(id)
            /\ result'.value.event = ResumedEvent[call'.op]
            /\ result'.value.args[Len(result'.value.args)] =
                  RecordAt(chain.systemStatus, id).reason

C25_Start ==
    (chain = NoChain /\ chain' # NoChain) =>
        \A id \in RecordIds :
            RecordAt(chain'.systemStatus, id) = [suspended |-> FALSE, reason |-> 0]

C25_Upgrading ==
    chain' # NoChain =>
        (isSystemUpgrading(chain'.systemStatus)
            <=> RecordAt(chain'.systemStatus, <<SECTION_SYSTEM, <<>>>>) =
                    [suspended |-> TRUE, reason |-> SUSPENSION_REASON_UPGRADE])

(* C25: every suspension record starts as (false, 0); an authorized        *)
(* suspend with reason r sets its record, and no other, to (true, r) and   *)
(* emits the Suspended event with r; an authorized resume sets it to       *)
(* (false, 0) and emits the Resumed event with the reason stored before;   *)
(* isSystemUpgrading() holds exactly when the system record is suspended   *)
(* with reason SUSPENSION_REASON_UPGRADE.                                  *)
C25_SuspensionRecords ==
    [][C25_Start /\ C25_Suspend /\ C25_Resume /\ C25_Upgrading]_vars

C25_Witness ==
    /\ chain # NoChain
    /\ call.op = "resumeSynth"
    /\ call.args.key = zBTC
    /\ result.status = "ok"
    /\ result.value = [event |-> "SynthResumed", args |-> <<zBTC, 3>>]
    /\ chain.systemStatus.synthSuspension[zBTC] = [suspended |-> FALSE, reason |-> 0]


SuspendedRecords ==
    {id \in RecordIds : RecordAt(chain.systemStatus, id).suspended}

Reverts(check) == check.status = "throw"

(* C26: while the system is suspended, requireSystemActive,                *)
(* requireIssuanceActive, requireSynthActive and requireSynthsActive all   *)
(* revert; while only issuance (or only exchange) is suspended, only       *)
(* requireIssuanceActive (or requireExchangeActive) reverts; while only    *)
(* synth key k is suspended, requireSynthActive(k) reverts and             *)
(* requireSynthsActive(a, b) reverts exactly when a = k or b = k, the      *)
(* system and issuance checks passing; with nothing suspended all pass.    *)
C26_RequireChecks ==
    chain # NoChain =>
        LET status == chain.systemStatus
            only(id) == SuspendedRecords = {id}
        IN  /\ <<SECTION_SYSTEM, <<>>>> \in SuspendedRecords =>
                  /\ Reverts(requireSystemActive(status))
                  /\ Reverts(requireIssuanceActive(status))
                  /\ \A k \in SynthKeys : Reverts(requireSynthActive(status, k))
                  /\ \A a, b \in SynthKeys : Reverts(requireSynthsActive(status, a, b))
            /\ only(<<SECTION_ISSUANCE, <<>>>>) =>
                  /\ Reverts(requireIssuanceActive(status))
                  /\ ~Reverts(requireSystemActive(status))
                  /\ ~Reverts(requireExchangeActive(status))
                  /\ \A a, b \in SynthKeys :
                        /\ ~Reverts(requireSynthActive(status, a))
                        /\ ~Reverts(requireSynthsActive(status, a, b))
            /\ only(<<SECTION_EXCHANGE, <<>>>>) =>
                  /\ Reverts(requireExchangeActive(status))
                  /\ ~Reverts(requireSystemActive(status))
                  /\ ~Reverts(requireIssuanceActive(status))
                  /\ \A a, b \in SynthKeys :
                        /\ ~Reverts(requireSynthActive(status, a))
                        /\ ~Reverts(requireSynthsActive(status, a, b))
            /\ \A k \in SynthKeys :
                  only(<<SECTION_ZASSET, k>>) =>
                      /\ Reverts(requireSynthActive(status, k))
                      /\ \A a, b \in SynthKeys :
                            Reverts(requireSynthsActive(status, a, b)) <=> (a = k \/ b = k)
                      /\ ~Reverts(requireSystemActive(status))
                      /\ ~Reverts(requireIssuanceActive(status))
            /\ SuspendedRecords = {} =>
                  /\ ~Reverts(requireSystemActive(status))
                  /\ ~Reverts(requireIssuanceActive(status))
                  /\ ~Reverts(requireExchangeActive(status))
                  /\ \A a, b \in SynthKeys :
                        /\ ~Reverts(requireSynthActive(status, a))
                        /\ ~Reverts(requireSynthsActive(status, a, b))

C26_Witness ==
    /\ chain # NoChain
    /\ call.op = "resumeSystem"
    /\ result.status = "ok"
    /\ SuspendedRecords = {}
    /\ ~Reverts(requireSystemActive(chain.systemStatus))
    /\ ~Reverts(requireSynthsActive(chain.systemStatus, zBTC, zETH))
    /\ result.value.args = <<SUSPENSION_REASON_UPGRADE>>


\* uintN and intN for N = 8, 16, ..., 256
IntegerTypes ==
    {prefix \o NumberToString(8 * n) : prefix \in {<<"u", "i", "n", "t">>, TypeInt}, n \in 1..32}

HasIntegerAnnotation(param) ==
    /\ Has(param, "enhanced")
    /\ DOMAIN param.enhanced = {"bp", "decimal", "number"}

(* C28: with enhanceDecode set, a decoded parameter has the annotation     *)
(* {bp, decimal, number} if and only if its type is uintN or intN with N a *)
(* multiple of 8 from 8 to 256.                                            *)
C28_AnnotatedIffInteger ==
    (EnhanceCall /\ Decodable /\ result.status = "ok") =>
        \A i \in 1..Len(PlainParams) :
            HasIntegerAnnotation(result.value.method.params[i])
                <=> PlainParams[i].type \in IntegerTypes


-----------------------------------------------------------------------------
\* getTokens was called, directly or through wrap, with a deploymentPath
\* whose directory holds the deployment, the synths and the feeds file
TokensOfDeploymentPath ==
    /\ call.op = "getTokens"
    /\ call.args.deploymentPath
    /\ {DEPLOYMENT_FILENAME, SYNTHS_FILENAME, FEEDS_FILENAME} \subseteq DOMAIN disk[DeploymentDir]

(* C29: with an explicit deploymentPath, getTokens (called directly or    *)
(* through wrap) builds the token list from the synths, feeds and targets *)
(* found under that deployment path: the native token has the address of  *)
(* that deployment's ProxySynthetix and that feeds file's HZN feed, and   *)
(* the other tokens are that synths file's synths that are not internal.  *)
C29_TokensFromDeploymentPath ==
    TokensOfDeploymentPath =>
        LET dir == disk[DeploymentDir]
            synths == dir[SYNTHS_FILENAME]
            out == result.value
        IN  /\ result.status = "ok"
            /\ out[1].address =
                   Lookup(dir[DEPLOYMENT_FILENAME].targets, ProxySynthetix).address
            /\ out[1].feed = Lookup(dir[FEEDS_FILENAME], HZN).feed
            /\ {out[k].symbol : k \in 2..Len(out)} =
                   {synths[i].name :
                       i \in {j \in 1..Len(synths) : synths[j].category # "internal"}}


-----------------------------------------------------------------------------
(* The remove-synths script *)

MaxRemove == 2

CONFIG_FILENAME == "config.json"
OWNER_ACTIONS_FILENAME == "owner-actions.json"

Zasset == <<"Z", "a", "s", "s", "e", "t">>
TokenState == <<"T", "o", "k", "e", "n", "S", "t", "a", "t", "e">>
Synth == <<"S", "y", "n", "t", "h">>
Synthetix == <<"S", "y", "n", "t", "h", "e", "t", "i", "x">>
Issuer == <<"I", "s", "s", "u", "e", "r">>
zJPY == <<"z", "J", "P", "Y">>

\* the directory of the deployment the script works on
RemoveDir == <<"/", "r", "m">>

\* delete obj[k] for every k of `keys`
Drop(table, keys) == SelectSeq(table, LAMBDA e : e.key \notin keys)

RECURSIVE StripTrailingZeros(_)
StripTrailingZeros(digits) ==
    IF Len(digits) > 1 /\ digits[Len(digits)] = "0"
    THEN StripTrailingZeros(SubSeq(digits, 1, Len(digits) - 1))
    ELSE digits

\* ethers.utils.formatEther: the amount of wei as a decimal number of
\* ether, eighteen decimals with the trailing zeros dropped but one
formatEther(wei) ==
    LET padded == Repeat("0", 19 - Len(wei)) \o wei
        whole == SubSeq(padded, 1, Len(padded) - 18)
        fraction == SubSeq(padded, Len(padded) - 17, Len(padded))
    IN  whole \o <<".">> \o StripTrailingZeros(fraction)

\* Number(text) > 0, for the text of a decimal number without sign
IsPositiveNumber(text) == \E i \in 1..Len(text) : text[i] \in DigitChars \ {"0"}

\* the run ends: its promise resolves, with process.exitCode as set, or
\* rejects
Stop(run, outcome) == [run |-> [run EXCEPT !.pc = "done"], result |-> outcome]

\* the head of the loop body for position i, up to its first await: the
\* target Zasset<currencyKey> of the deployment as loaded is destructured
Enter(run, i) ==
    LET at == [run EXCEPT !.i = i]
    IN  IF i > Len(run.args.synthsToRemove) THEN Stop(at, Returned(run.exitCode))
        ELSE IF ~HasKey(run.deployment.targets, Zasset \o run.args.synthsToRemove[i])
             THEN Stop(at, Threw("TypeError"))
        ELSE [run |-> [at EXCEPT !.pc = "synths"], result |-> NoResult]

\* the first position of the list whose synth fails the sanity check, 0
\* when none does
RECURSIVE FirstInsane(_, _, _)
FirstInsane(synths, synthsToRemove, i) ==
    IF i > Len(synthsToRemove) THEN 0
    ELSE IF \/ ~\E j \in 1..Len(synths) : synths[j].name = synthsToRemove[i]
            \/ synthsToRemove[i] \in {zUSD}
         THEN i
    ELSE FirstInsane(synths, synthsToRemove, i + 1)

\* removeSynths up to its first await: the sources are loaded, the list is
\* checked, and the run waits for the confirmation unless `yes` is given
removeSynths(args) ==
    LET dir == disk[RemoveDir]
        \* of loadAndCheckRequiredSources: synths, config, deployment; the
        \* updated ones are the clones the loop changes and writes
        run == [op |-> "removeSynths", args |-> args, pc |-> "confirm", i |-> 0,
                exitCode |-> 0, answer |-> "none",
                synths |-> dir[SYNTHS_FILENAME],
                config |-> dir[CONFIG_FILENAME],
                deployment |-> dir[DEPLOYMENT_FILENAME],
                updatedConfig |-> dir[CONFIG_FILENAME],
                updatedDeployment |-> dir[DEPLOYMENT_FILENAME],
                updatedSynths |-> dir[SYNTHS_FILENAME]]
        insane == FirstInsane(dir[SYNTHS_FILENAME], args.synthsToRemove, 1)
    IN  IF Len(args.synthsToRemove) < 1 THEN Stop(run, Returned(0))
        ELSE IF insane # 0 THEN Stop(run, Returned(1))
        ELSE IF ~args.yes THEN [run |-> run, result |-> NoResult]
        ELSE Enter(run, 1)

\* confirmAction settles: resolved on a yes, rejected otherwise
confirmed(run, answer) ==
    IF answer THEN Enter([run EXCEPT !.answer = "yes"], 1)
    ELSE Stop([run EXCEPT !.answer = "no"], Returned(run.exitCode))

\* Synthetix.synths(toBytes32(currencyKey)) resolves to currentSynthInSNX
synthsRead(run, currentSynthInSNX) ==
    LET currencyKey == run.args.synthsToRemove[run.i]
        synthAddress == Lookup(run.deployment.targets, Zasset \o currencyKey).address
    IN  IF synthAddress # currentSynthInSNX THEN Stop(run, Returned(1))
        ELSE [run |-> [run EXCEPT !.pc = "supply"], result |-> NoResult]

\* Synth.totalSupply() resolves to `wei`
supplyRead_unchecked(run, wei) ==
    IF run.args.dryRun THEN Enter(run, run.i + 1)
    ELSE [run |-> [run EXCEPT !.pc = "transact"], result |-> NoResult]

supplyRead(run, wei) ==
    IF IsPositiveNumber(formatEther(wei)) THEN Stop(run, Returned(1))
    ELSE IF run.args.dryRun THEN Enter(run, run.i + 1)
    ELSE [run |-> [run EXCEPT !.pc = "transact"], result |-> NoResult]

\* the three files as written after the step for the synth at position i
removed_fromLoaded(run) ==
    LET currencyKey == run.args.synthsToRemove[run.i]
        contracts == {name \o currencyKey : name \in {Proxy, TokenState, Synth}}
        updatedConfig == Drop(run.updatedConfig, contracts)
        updatedDeployment == [run.deployment EXCEPT !.targets = Drop(@, contracts)]
        updatedSynths == SelectSeq(run.updatedSynths, LAMBDA s : s.name # currencyKey)
    IN  [run |-> [run EXCEPT !.updatedConfig = updatedConfig,
                             !.updatedDeployment = updatedDeployment,
                             !.updatedSynths = updatedSynths],
         files |-> (CONFIG_FILENAME :> updatedConfig)
                   @@ (DEPLOYMENT_FILENAME :> updatedDeployment)
                   @@ (SYNTHS_FILENAME :> updatedSynths)]

removed(run) ==
    LET currencyKey == run.args.synthsToRemove[run.i]
        contracts == {name \o currencyKey : name \in {Proxy, TokenState, Synth}}
        updatedConfig == Drop(run.updatedConfig, contracts)
        updatedDeployment ==
            [run.updatedDeployment EXCEPT !.targets = Drop(@, contracts)]
        updatedSynths == SelectSeq(run.updatedSynths, LAMBDA s : s.name # currencyKey)
    IN  [run |-> [run EXCEPT !.updatedConfig = updatedConfig,
                             !.updatedDeployment = updatedDeployment,
                             !.updatedSynths = updatedSynths],
         files |-> (CONFIG_FILENAME :> updatedConfig)
                   @@ (DEPLOYMENT_FILENAME :> updatedDeployment)
                   @@ (SYNTHS_FILENAME :> updatedSynths)]

\* fs.writeFileSync of each file of `files` in the directory
Written(files) ==
    [disk EXCEPT ![RemoveDir] =
        [f \in DOMAIN @ |-> IF f \in DOMAIN files THEN files[f] ELSE @[f]]]

-----------------------------------------------------------------------------
(* SpecRemove: one run of the script *)

ZeroAddress == <<"0", "x", "0">>
ZeroWei == <<"0">>
OneWei == <<"1">>
OneEther == <<"1">> \o Repeat("0", 18)

RemovableKeys == {zBTC, zETH}
LocalAddress == (zBTC :> AddrB) @@ (zETH :> AddrC)

RemoveSynthsFile ==
    << [name |-> zUSD, asset |-> USD, category |-> "internal"],
       [name |-> zBTC, asset |-> BTC, category |-> "crypto"],
       [name |-> zETH, asset |-> ETH, category |-> "crypto"] >>

ContractsOf(key) == <<Proxy \o key, TokenState \o key, Synth \o key, Zasset \o key>>

\* the targets of the deployment: Synthetix, Issuer and the contracts of
\* each synth; `lacking` is a synth whose Zasset target is not recorded
RemoveTargets(lacking) ==
    LET names == <<Synthetix, Issuer>> \o ContractsOf(zUSD) \o ContractsOf(zBTC)
                     \o ContractsOf(zETH)
        kept == SelectSeq(names, LAMBDA n : n \notin {Zasset \o k : k \in lacking})
    IN  [i \in 1..Len(kept) |->
            TargetRec(kept[i],
                      IF \E k \in RemovableKeys : kept[i] = Zasset \o k
                      THEN LocalAddress[CHOOSE k \in RemovableKeys : kept[i] = Zasset \o k]
                      ELSE AddrA,
                      SrcToken)]

RemoveConfig(lacking) ==
    LET targets == RemoveTargets(lacking)
    IN  [i \in 1..Len(targets) |-> [key |-> targets[i].key, value |-> [deploy |-> TRUE]]]

RemoveFiles(lacking) ==
    (CONFIG_FILENAME :> RemoveConfig(lacking))
    @@ (DEPLOYMENT_FILENAME :>
           [targets |-> RemoveTargets(lacking),
            sources |-> << [key |-> SrcToken, value |-> [abi |-> <<Constructor>>]] >>])
    @@ (SYNTHS_FILENAME :> RemoveSynthsFile)
    @@ (OWNER_ACTIONS_FILENAME :> <<>>)

RemoveLists ==
    UNION {[1..n -> {zBTC, zETH, zUSD, zJPY}] : n \in 0..MaxRemove}

RemoveArgs ==
    {[synthsToRemove |-> list, yes |-> yes, dryRun |-> dryRun] :
        list \in RemoveLists, yes \in BOOLEAN, dryRun \in BOOLEAN}

\* what the contracts on chain hold: the synth Synthetix knows by each
\* key, the total supply of each synth, and the keys Issuer.removeSynth was
\* called with
InitRemove ==
    \E lacking \in {{}, {zETH}},
       synths \in [RemovableKeys -> {"local", "other"}],
       supply \in [RemovableKeys -> {ZeroWei, OneWei, OneEther}] :
        /\ assets = Assets0
        /\ data = EmptyObj
        /\ disk = (RemoveDir :> RemoveFiles(lacking))
        /\ abiState = EmptyObj
        /\ chain = [synths |-> [b \in {toBytes32(k) : k \in RemovableKeys} |->
                                   LET k == CHOOSE k \in RemovableKeys : toBytes32(k) = b
                                   IN  IF synths[k] = "local" THEN LocalAddress[k] ELSE AddrA],
                    totalSupply |-> [a \in {LocalAddress[k] : k \in RemovableKeys} |->
                                        supply[CHOOSE k \in RemovableKeys : LocalAddress[k] = a]],
                    removeSynth |-> <<>>]
        /\ call = NoCall
        /\ result = NoResult

Running(pc) == call.op = "removeSynths" /\ call.pc = pc

Continue(next) ==
    /\ call' = next.run
    /\ result' = next.result
    /\ UNCHANGED <<assets, data, disk, abiState, chain>>

RunRemoveSynths ==
    /\ Fresh
    /\ \E args \in RemoveArgs : Continue(removeSynths(args))

ConfirmAction ==
    /\ Running("confirm")
    /\ \E answer \in BOOLEAN : Continue(confirmed(call, answer))

ReadSynths ==
    /\ Running("synths")
    /\ Continue(synthsRead(call, chain.synths[toBytes32(call.args.synthsToRemove[call.i])]))

ReadTotalSupply ==
    /\ Running("supply")
    /\ LET currencyKey == call.args.synthsToRemove[call.i]
           synthAddress == Lookup(call.deployment.targets, Zasset \o currencyKey).address
       IN  Continue(supplyRead(call, chain.totalSupply[synthAddress]))

\* performTransactionalStep settles: the transaction was mined, or the
\* call was appended to the owner actions for the owner to make, or the
\* step failed; after it the files are written and the loop goes on
PerformTransactionalStep ==
    /\ Running("transact")
    /\ \E way \in {"mined", "appended", "failed"} :
         LET currencyKey == call.args.synthsToRemove[call.i]
             writeArg == toBytes32(currencyKey)
             after == removed(call)
             next == Enter(after.run, call.i + 1)
         IN  IF way = "failed"
             THEN /\ call' = [call EXCEPT !.pc = "done"]
                  /\ result' = Threw("transaction failed")
                  /\ UNCHANGED <<assets, data, disk, abiState, chain>>
             ELSE /\ chain' = IF way = "mined"
                              THEN [chain EXCEPT !.synths[writeArg] = ZeroAddress,
                                                 !.removeSynth = Append(@, writeArg)]
                              ELSE chain
                  /\ disk' = [Written(after.files) EXCEPT
                                 ![RemoveDir][OWNER_ACTIONS_FILENAME] =
                                     IF way = "appended" THEN Append(@, writeArg) ELSE @]
                  /\ call' = next.run
                  /\ result' = next.result
                  /\ UNCHANGED <<assets, data, abiState>>

NextRemove ==
    \/ RunRemoveSynths
    \/ ConfirmAction
    \/ ReadSynths
    \/ ReadTotalSupply
    \/ PerformTransactionalStep

SpecRemove == InitRemove /\ [][NextRemove]_vars


-----------------------------------------------------------------------------
\* the call Issuer.removeSynth(key) as sent or as left to the owner
StepsPerformed ==
    {chain.removeSynth[n] : n \in 1..Len(chain.removeSynth)}
    \cup {disk[RemoveDir][OWNER_ACTIONS_FILENAME][n] :
             n \in 1..Len(disk[RemoveDir][OWNER_ACTIONS_FILENAME])}

RemoveFileNames == {CONFIG_FILENAME, DEPLOYMENT_FILENAME, SYNTHS_FILENAME}

\* every synth of the list is in the synths list loaded and none is zUSD
ListSane ==
    \A j \in 1..Len(call.args.synthsToRemove) :
        /\ \E n \in 1..Len(call.synths) : call.synths[n].name = call.args.synthsToRemove[j]
        /\ call.args.synthsToRemove[j] # zUSD

\* a step of the run that sends a transaction, leaves one to the owner or
\* writes a file
SideEffect == call.op = "removeSynths" /\ (chain' # chain \/ disk' # disk)

C27_Conditions ==
    LET list == call.args.synthsToRemove
        K == list[call.i]
        local == Lookup(call.deployment.targets, Zasset \o K).address
    IN  /\ Len(list) >= 1
        /\ call.i \in 1..Len(list)
        /\ ListSane
        /\ call.args.yes \/ call.answer = "yes"
        /\ ~call.args.dryRun
        /\ HasKey(call.deployment.targets, Zasset \o K)
        /\ local = chain.synths[toBytes32(K)]
        /\ chain.totalSupply[local] = ZeroWei
        \* and the step and the writes are those for K
        /\ \/ chain'.removeSynth = Append(chain.removeSynth, toBytes32(K))
           \/ disk'[RemoveDir][OWNER_ACTIONS_FILENAME] =
                  Append(disk[RemoveDir][OWNER_ACTIONS_FILENAME], toBytes32(K))
        /\ \A n \in 1..Len(disk'[RemoveDir][SYNTHS_FILENAME]) :
               disk'[RemoveDir][SYNTHS_FILENAME][n].name # K

(* C27: the run performs an Issuer.removeSynth step for key K and writes  *)
(* the config, deployment and synths files only if the list is not empty, *)
(* every listed synth exists and none is zUSD, the user confirmed or yes  *)
(* was given, dryRun is false, the address recorded locally for K's synth *)
(* is the one Synthetix reports for K, and K's total supply is zero; in   *)
(* every other case no transaction is made and no file is written.        *)
C27_GuardedRemoval == [][SideEffect => C27_Conditions]_vars

\* Issuer.removeSynth(zBTC) was mined after the user confirmed, and the
\* files were written without zBTC
C27_Witness ==
    /\ call.op = "removeSynths"
    /\ call.answer = "yes"
    /\ chain.removeSynth = <<toBytes32(zBTC)>>
    /\ ~HasKey(disk[RemoveDir][DEPLOYMENT_FILENAME].targets, Synth \o zBTC)
    /\ ~HasKey(disk[RemoveDir][CONFIG_FILENAME], Proxy \o zBTC)
    /\ \A n \in 1..Len(disk[RemoveDir][SYNTHS_FILENAME]) :
           disk[RemoveDir][SYNTHS_FILENAME][n].name # zBTC

-----------------------------------------------------------------------------
Stopped == call.op = "removeSynths" /\ call.pc = "done"

\* the run got into the loop over the list
LoopEntered ==
    /\ Len(call.args.synthsToRemove) >= 1
    /\ ListSane
    /\ call.args.yes \/ call.answer = "yes"

\* the synths before the position the run stopped at, which a run that is
\* not dry has removed
RemovedBefore ==
    IF LoopEntered /\ ~call.args.dryRun
    THEN {call.args.synthsToRemove[j] : j \in 1..(call.i - 1)}
    ELSE {}

ContractsRemoved ==
    {name \o K : name \in {Proxy, TokenState, Synth}, K \in RemovedBefore}

(* C30: whenever the run stops, at its normal end or at a check or a step *)
(* failing on the i-th synth, the removeSynth steps performed are those   *)
(* of the synths before position i, the synths file holds the original    *)
(* synths less those, and the config and the deployment file have lost    *)
(* the Proxy, TokenState and Synth entries of exactly those synths; a     *)
(* dry run leaves the three files as they were.                           *)
C30_PersistedPrefix ==
    Stopped =>
        LET dir == disk[RemoveDir]
        IN  /\ StepsPerformed = {toBytes32(K) : K \in RemovedBefore}
            /\ dir[SYNTHS_FILENAME] =
                   SelectSeq(call.synths, LAMBDA s : s.name \notin RemovedBefore)
            /\ dir[CONFIG_FILENAME] = Drop(call.config, ContractsRemoved)
            /\ dir[DEPLOYMENT_FILENAME] =
                   [call.deployment EXCEPT !.targets = Drop(@, ContractsRemoved)]
            /\ call.args.dryRun => \A f \in RemoveFileNames :
                                       dir[f] = RemoveFiles({})[f]
                                       \/ dir[f] = RemoveFiles({zETH})[f]

\* zBTC was removed and its removal persisted, then the run stopped at
\* zETH, whose total supply is not zero
C30_Witness ==
    /\ Stopped
    /\ call.args.synthsToRemove = <<zBTC, zETH>>
    /\ call.i = 2
    /\ result.status = "ok"
    /\ result.value = 1
    /\ chain.totalSupply[AddrC] # ZeroWei
    /\ chain.synths[toBytes32(zETH)] = AddrC
    /\ ~HasKey(disk[RemoveDir][DEPLOYMENT_FILENAME].targets, TokenState \o zBTC)
    /\ HasKey(disk[RemoveDir][DEPLOYMENT_FILENAME].targets, TokenState \o zETH)
    /\ Len(disk[RemoveDir][SYNTHS_FILENAME]) = 2

====
